---- MODULE Spec2Model ----
(***************************************************************************)
(* A model of the Texas Hold'em engine of src/game: the Card/Deck model,   *)
(* the Player state, the Pot ledger, the hand evaluator and the Game       *)
(* orchestrator.  Seat indices are 0-based as in the Python source; TLA+   *)
(* sequences are 1-based, so seat i is players[i + 1].                     *)
(***************************************************************************)
EXTENDS Integers, Sequences, FiniteSets, TLC

VARIABLES
    players,               \* Game.players: the seat list (Player records)
    phase,                 \* Game.phase
    hand_number,           \* Game.hand_number
    deck,                  \* Game.deck.cards (dealt from the end)
    community_cards,       \* Game.community_cards
    main_pot,              \* Pot.main_pot
    player_contributions,  \* Pot.player_contributions (keyed by player name)
    side_pots,             \* Pot.side_pots
    dealer_position,       \* Game.dealer_position
    current_player_index,  \* Game.current_player_index
    last_raiser_index,     \* Game.last_raiser_index
    current_bet,           \* Game.current_bet
    min_raise,             \* Game.min_raise
    stray,                 \* calls a client made outside the hand protocol
    eval_cards,            \* the cards handed to the hand evaluator
    eval_result            \* the HandResult it returned (<<>> before the call)

vars == <<players, phase, hand_number, deck, community_cards, main_pot,
          player_contributions, side_pots, dealer_position,
          current_player_index, last_raiser_index, current_bet, min_raise,
          stray, eval_cards, eval_result>>

(***************************************************************************)
(* Bounds of the model and the constructor arguments of the table.         *)
(***************************************************************************)
MaxNames == 3       \* distinct player names offered to add_player
MaxStack == 4       \* the deepest starting stack offered to add_player
MaxRaise == 5       \* the largest Raise amount a caller submits
MaxEvents == 2      \* hands started plus out-of-protocol calls in one run
MaxSeatNames == 7   \* distinct names offered while the table is only seated
MaxFiveDeck == 18   \* cards of the stacked deck that five-card hands draw on
MaxSevenDeck == 14  \* cards of the stacked deck that seven-card hands draw on

small_blind == 1    \* Game(small_blind=1, big_blind=2)
big_blind == 2
MaxSeats == 6       \* the table size add_player enforces

StackChoices == {1, MaxStack}

Min(a, b) == IF a < b THEN a ELSE b

RECURSIVE SumSeq(_)
SumSeq(s) == IF s = <<>> THEN 0 ELSE s[1] + SumSeq(Tail(s))

RECURSIVE SetToSortedSeq(_)
SetToSortedSeq(S) ==
    IF S = {} THEN <<>>
    ELSE LET m == CHOOSE x \in S : \A y \in S : x <= y
         IN <<m>> \o SetToSortedSeq(S \ {m})

\* list.index(x) of an ascending list given as a set: number of smaller ones
IndexIn(S, x) == Cardinality({y \in S : y < x})
\* element k (0-based) of the ascending list of S
Nth(S, k) == SetToSortedSeq(S)[k + 1]

(***************************************************************************)
(* Card model (src/game/card.py).  Card c in 1..52 is the c-th card of     *)
(* Deck.reset(): suits in enum order, ranks 2..14 within a suit.           *)
(***************************************************************************)
RankOf(c) == ((c - 1) % 13) + 2
SuitOf(c) == (c - 1) \div 13
CardOf(s, r) == s * 13 + (r - 2) + 1

DeckReset == [i \in 1..52 |-> i]

Reverse(s) == [i \in 1..Len(s) |-> s[Len(s) + 1 - i]]

\* deal_card: pop from the end; None (0) when the deck is empty
DealCard(d) ==
    IF d = <<>> THEN [card |-> 0, deck |-> d]
    ELSE [card |-> d[Len(d)], deck |-> SubSeq(d, 1, Len(d) - 1)]

RECURSIVE DealCards(_, _)
DealCards(d, count) ==
    IF count = 0 THEN [cards |-> <<>>, deck |-> d]
    ELSE LET one == DealCard(d)
         IN IF one.card = 0 THEN [cards |-> <<>>, deck |-> d]
            ELSE LET rest == DealCards(one.deck, count - 1)
                 IN [cards |-> <<one.card>> \o rest.cards, deck |-> rest.deck]

\* A deck whose first cards dealt are `top` (in that order); the other cards
\* keep the order of Deck.reset() beneath them.
RECURSIVE Without(_, _)
Without(s, S) ==
    IF s = <<>> THEN <<>>
    ELSE IF s[1] \in S THEN Without(Tail(s), S)
         ELSE <<s[1]>> \o Without(Tail(s), S)

DeckDealing(top) ==
    Without(DeckReset, {top[i] : i \in 1..Len(top)}) \o Reverse(top)

(***************************************************************************)
(* Hand evaluator (src/game/hand_evaluator.py).  A HandResult is the pair  *)
(* (hand_rank, rank_values); the five cards it also carries are only       *)
(* displayed and take no part in any comparison.                           *)
(***************************************************************************)
HIGH_CARD == 1
ONE_PAIR == 2
TWO_PAIR == 3
THREE_OF_A_KIND == 4
STRAIGHT == 5
FLUSH == 6
FULL_HOUSE == 7
FOUR_OF_A_KIND == 8
STRAIGHT_FLUSH == 9
ROYAL_FLUSH == 10

HandResult(hr, values) == [hand_rank |-> hr, rank_values |-> values]

\* sorted(..., reverse=True) of a sequence of integers
RECURSIVE InsertDesc(_, _)
InsertDesc(sorted, x) ==
    IF sorted = <<>> THEN <<x>>
    ELSE IF x >= Head(sorted) THEN <<x>> \o sorted
         ELSE <<Head(sorted)>> \o InsertDesc(Tail(sorted), x)

RECURSIVE SortDesc(_)
SortDesc(s) ==
    IF s = <<>> THEN <<>> ELSE InsertDesc(SortDesc(Tail(s)), Head(s))

RECURSIVE RanksOf(_)
RanksOf(cards) ==
    IF cards = <<>> THEN <<>>
    ELSE <<RankOf(Head(cards))>> \o RanksOf(Tail(cards))

\* Counter(card.rank.value for card in cards), as the set of its
\* <<rank, count>> items
Counter(cards) ==
    LET ranks == RanksOf(cards)
    IN {<<r, Cardinality({i \in 1..Len(ranks) : ranks[i] = r})>> :
           r \in {ranks[i] : i \in 1..Len(ranks)}}

\* [r for r, c in rank_counts.items() if c == n], as a set
RanksWithCount(rank_counts, n) == {e[1] : e \in {x \in rank_counts : x[2] = n}}

_is_flush(cards) == Cardinality({SuitOf(cards[i]) : i \in 1..Len(cards)}) = 1

_is_straight(cards) ==
    LET desc == SortDesc(RanksOf(cards))
        low == desc[5]
    IN \/ \A i \in 1..5 : desc[i] = low + (5 - i)
       \/ desc = <<14, 5, 4, 3, 2>>

\* variant: the ace of a wheel keeps its face value
_get_straight_high_card_AceHigh(cards) == SortDesc(RanksOf(cards))[1]

_get_straight_high_card(cards) ==
    LET desc == SortDesc(RanksOf(cards))
    IN IF desc = <<14, 5, 4, 3, 2>> THEN 5 ELSE desc[1]

_is_royal_flush(cards) ==
    _is_flush(cards) /\ SortDesc(RanksOf(cards)) = <<14, 13, 12, 11, 10>>

_is_straight_flush(cards) == _is_flush(cards) /\ _is_straight(cards)

\* each _check_* returns its HandResult, or <<>> for None
_check_four_of_a_kind(cards) ==
    LET rank_counts == Counter(cards)
    IN IF RanksWithCount(rank_counts, 4) # {}
       THEN HandResult(FOUR_OF_A_KIND,
                       <<CHOOSE r \in RanksWithCount(rank_counts, 4) : TRUE,
                         CHOOSE r \in RanksWithCount(rank_counts, 1) : TRUE>>)
       ELSE <<>>

_check_full_house(cards) ==
    LET rank_counts == Counter(cards)
    IN IF RanksWithCount(rank_counts, 3) # {} /\ RanksWithCount(rank_counts, 2) # {}
       THEN HandResult(FULL_HOUSE,
                       <<CHOOSE r \in RanksWithCount(rank_counts, 3) : TRUE,
                         CHOOSE r \in RanksWithCount(rank_counts, 2) : TRUE>>)
       ELSE <<>>

_check_three_of_a_kind(cards) ==
    LET rank_counts == Counter(cards)
    IN IF RanksWithCount(rank_counts, 3) # {}
       THEN HandResult(THREE_OF_A_KIND,
                       <<CHOOSE r \in RanksWithCount(rank_counts, 3) : TRUE>>
                       \o SortDesc(SetToSortedSeq(RanksWithCount(rank_counts, 1))))
       ELSE <<>>

_check_two_pair(cards) ==
    LET rank_counts == Counter(cards)
    IN IF Cardinality(RanksWithCount(rank_counts, 2)) = 2
       THEN HandResult(TWO_PAIR,
                       SortDesc(SetToSortedSeq(RanksWithCount(rank_counts, 2)))
                       \o <<CHOOSE r \in RanksWithCount(rank_counts, 1) : TRUE>>)
       ELSE <<>>

_check_one_pair(cards) ==
    LET rank_counts == Counter(cards)
    IN IF RanksWithCount(rank_counts, 2) # {}
       THEN HandResult(ONE_PAIR,
                       <<CHOOSE r \in RanksWithCount(rank_counts, 2) : TRUE>>
                       \o SortDesc(SetToSortedSeq(RanksWithCount(rank_counts, 1))))
       ELSE <<>>

\* variant: the flush test comes before the straight-flush test
_evaluate_five_cards_FlushFirst(cards) ==
    LET four_kind_result == _check_four_of_a_kind(cards)
        full_house_result == _check_full_house(cards)
        three_kind_result == _check_three_of_a_kind(cards)
        two_pair_result == _check_two_pair(cards)
        one_pair_result == _check_one_pair(cards)
    IN IF _is_royal_flush(cards) THEN HandResult(ROYAL_FLUSH, <<14>>)
       ELSE IF _is_flush(cards) THEN HandResult(FLUSH, SortDesc(RanksOf(cards)))
       ELSE IF _is_straight_flush(cards)
       THEN HandResult(STRAIGHT_FLUSH, <<_get_straight_high_card(cards)>>)
       ELSE IF four_kind_result # <<>> THEN four_kind_result
       ELSE IF full_house_result # <<>> THEN full_house_result
       ELSE IF _is_straight(cards)
       THEN HandResult(STRAIGHT, <<_get_straight_high_card(cards)>>)
       ELSE IF three_kind_result # <<>> THEN three_kind_result
       ELSE IF two_pair_result # <<>> THEN two_pair_result
       ELSE IF one_pair_result # <<>> THEN one_pair_result
       ELSE HandResult(HIGH_CARD, SortDesc(RanksOf(cards)))

_evaluate_five_cards(cards) ==
    LET four_kind_result == _check_four_of_a_kind(cards)
        full_house_result == _check_full_house(cards)
        three_kind_result == _check_three_of_a_kind(cards)
        two_pair_result == _check_two_pair(cards)
        one_pair_result == _check_one_pair(cards)
    IN IF _is_royal_flush(cards) THEN HandResult(ROYAL_FLUSH, <<14>>)
       ELSE IF _is_straight_flush(cards)
       THEN HandResult(STRAIGHT_FLUSH, <<_get_straight_high_card(cards)>>)
       ELSE IF four_kind_result # <<>> THEN four_kind_result
       ELSE IF full_house_result # <<>> THEN full_house_result
       ELSE IF _is_flush(cards) THEN HandResult(FLUSH, SortDesc(RanksOf(cards)))
       ELSE IF _is_straight(cards)
       THEN HandResult(STRAIGHT, <<_get_straight_high_card(cards)>>)
       ELSE IF three_kind_result # <<>> THEN three_kind_result
       ELSE IF two_pair_result # <<>> THEN two_pair_result
       ELSE IF one_pair_result # <<>> THEN one_pair_result
       ELSE HandResult(HIGH_CARD, SortDesc(RanksOf(cards)))

\* HandResult.__lt__: hand_rank first, then the first differing pair of
\* zip(rank_values, other.rank_values)
HandLt(a, b) ==
    IF a.hand_rank # b.hand_rank THEN a.hand_rank < b.hand_rank
    ELSE LET n == Min(Len(a.rank_values), Len(b.rank_values))
             diff == {i \in 1..n : a.rank_values[i] # b.rank_values[i]}
         IN IF diff = {} THEN FALSE
            ELSE LET i == CHOOSE k \in diff : \A j \in diff : k <= j
                 IN a.rank_values[i] < b.rank_values[i]

\* HandResult.__eq__
HandEq(a, b) == a.hand_rank = b.hand_rank /\ a.rank_values = b.rank_values

\* itertools.combinations(cards, 5) of 7 cards, as the set of the 21
\* five-card hands (each keeps the cards in the order of `cards`)
\* the sequence s without its elements at positions i < j
Drop2(s, i, j) ==
    SubSeq(s, 1, i - 1) \o SubSeq(s, i + 1, j - 1) \o SubSeq(s, j + 1, Len(s))

Combinations5(cards) ==
    {Drop2(cards, pr[1], pr[2]) :
        pr \in {q \in (1..Len(cards)) \X (1..Len(cards)) : q[1] < q[2]}}

\* evaluate_hand: the best of the 21 five-card hands; "ValueError" unless
\* exactly 7 cards are given
\* the loop of evaluate_hand: best_hand is replaced by each hand_result
\* that is greater (best_hand < hand_result)
RECURSIVE BestHand(_, _)
BestHand(best_hand, results) ==
    IF results = {} THEN best_hand
    ELSE LET hand_result == CHOOSE r \in results : TRUE
         IN BestHand(IF HandLt(best_hand, hand_result) THEN hand_result
                     ELSE best_hand,
                     results \ {hand_result})

\* variant: only the five-card hands that keep both hole cards (the first
\* two of the seven) are considered
evaluate_hand_BothHoleCards(cards) ==
    IF Len(cards) # 7 THEN "ValueError"
    ELSE LET results == {_evaluate_five_cards(five) :
                            five \in {f \in Combinations5(cards) :
                                         f[1] = cards[1] /\ f[2] = cards[2]}}
             first == CHOOSE r \in results : TRUE
         IN BestHand(first, results \ {first})

evaluate_hand(cards) ==
    IF Len(cards) # 7 THEN "ValueError"
    ELSE LET results == {_evaluate_five_cards(five) : five \in Combinations5(cards)}
             first == CHOOSE r \in results : TRUE
         IN BestHand(first, results \ {first})

(***************************************************************************)
(* Player state (src/game/player.py).  The lifetime counters hands_played, *)
(* hands_won and total_winnings are write-only and are left out.           *)
(***************************************************************************)
ACTIVE == "active"
FOLDED == "folded"
ALL_IN == "all_in"
SITTING_OUT == "sitting_out"

NoAction == "none"
FOLD == "fold"
CHECK == "check"
CALL == "call"
RAISE == "raise"
ALLIN == "all_in"
PlayerActions == {FOLD, CHECK, CALL, RAISE, ALLIN}

\* Player.__init__ (position takes its default)
NewPlayer(name, chips) ==
    [name |-> name, chips |-> chips, position |-> 0, hole_cards |-> <<>>,
     status |-> SITTING_OUT, current_bet |-> 0, total_bet |-> 0,
     last_action |-> NoAction]

can_act(p) == p.status = ACTIVE
is_in_hand(p) == p.status \in {ACTIVE, ALL_IN}
HasChips(p) == p.chips > 0

sit_in(p) == IF p.chips > 0 THEN [p EXCEPT !.status = ACTIVE] ELSE p

fold(p) ==
    IF p.status # SITTING_OUT
    THEN [p EXCEPT !.status = FOLDED, !.last_action = FOLD]
    ELSE p

\* The chip-moving operations return the new player and the amount moved.
Moved(p, amount) == [player |-> p, amount |-> amount]

\* the whole stack goes in: shared tail of call, raise_bet and all_in
\* variant: a seat that puts its whole stack in stays Active
PutAllIn_StaysActive(p) ==
    Moved([p EXCEPT !.chips = 0,
                    !.current_bet = p.current_bet + p.chips,
                    !.total_bet = p.total_bet + p.chips,
                    !.last_action = ALLIN], p.chips)

PutAllIn(p) ==
    Moved([p EXCEPT !.chips = 0,
                    !.current_bet = p.current_bet + p.chips,
                    !.total_bet = p.total_bet + p.chips,
                    !.status = ALL_IN,
                    !.last_action = ALLIN], p.chips)

PutChips(p, amount, action) ==
    Moved([p EXCEPT !.chips = p.chips - amount,
                    !.current_bet = p.current_bet + amount,
                    !.total_bet = p.total_bet + amount,
                    !.last_action = action], amount)

call(p, amount) ==
    IF p.status # ACTIVE THEN Moved(p, 0)
    ELSE IF amount - p.current_bet <= 0 THEN Moved(p, 0)
    ELSE IF amount - p.current_bet >= p.chips THEN PutAllIn(p)
    ELSE PutChips(p, amount - p.current_bet, CALL)

raise_bet(p, total_amount) ==
    IF p.status # ACTIVE THEN Moved(p, 0)
    ELSE IF total_amount - p.current_bet <= 0 THEN Moved(p, 0)
    ELSE IF total_amount - p.current_bet >= p.chips THEN PutAllIn(p)
    ELSE PutChips(p, total_amount - p.current_bet, RAISE)

all_in(p) ==
    IF p.status # ACTIVE \/ p.chips = 0 THEN Moved(p, 0)
    ELSE PutAllIn(p)

\* variant: a blind that takes the whole stack leaves the seat Active
post_blind_StaysActive(p, amount) ==
    IF p.chips <= amount
    THEN Moved([p EXCEPT !.chips = 0, !.current_bet = p.chips,
                         !.total_bet = p.chips], p.chips)
    ELSE Moved([p EXCEPT !.chips = p.chips - amount, !.current_bet = amount,
                         !.total_bet = amount], amount)

post_blind(p, amount) ==
    IF p.chips <= amount
    THEN Moved([p EXCEPT !.chips = 0, !.current_bet = p.chips,
                         !.total_bet = p.chips, !.status = ALL_IN], p.chips)
    ELSE Moved([p EXCEPT !.chips = p.chips - amount, !.current_bet = amount,
                         !.total_bet = amount], amount)

\* new_betting_round clearing the contribution of the hand as well, as
\* new_hand does
new_betting_round_ClearsTotal(p) ==
    LET q == [p EXCEPT !.current_bet = 0, !.total_bet = 0,
                       !.last_action = NoAction]
    IN IF p.status \in {FOLDED, ALL_IN} THEN q
       ELSE IF p.chips > 0 THEN [q EXCEPT !.status = ACTIVE]
       ELSE q

new_betting_round(p) ==
    LET q == [p EXCEPT !.current_bet = 0, !.last_action = NoAction]
    IN IF p.status \in {FOLDED, ALL_IN} THEN q
       ELSE IF p.chips > 0 THEN [q EXCEPT !.status = ACTIVE]
       ELSE q

new_hand(p) ==
    [p EXCEPT !.hole_cards = <<>>, !.current_bet = 0, !.total_bet = 0,
              !.last_action = NoAction,
              !.status = IF p.chips > 0 THEN ACTIVE ELSE SITTING_OUT]

win_chips(p, amount) == [p EXCEPT !.chips = p.chips + amount]

\* for player in self.players: player.new_hand()
RECURSIVE NewHandAll(_)
NewHandAll(ps) ==
    IF ps = <<>> THEN <<>> ELSE <<new_hand(Head(ps))>> \o NewHandAll(Tail(ps))

\* for player in self.players: player.new_betting_round()
RECURSIVE NewBettingRoundAll(_)
NewBettingRoundAll(ps) ==
    IF ps = <<>> THEN <<>>
    ELSE <<new_betting_round(Head(ps))>> \o NewBettingRoundAll(Tail(ps))

(***************************************************************************)
(* Pot ledger (src/game/pot.py).  A pot is the record                      *)
(* [main_pot, player_contributions, side_pots]; player_contributions is a  *)
(* function from the names that have an entry to their running totals.     *)
(***************************************************************************)
EmptyPot == [main_pot |-> 0, player_contributions |-> <<>>, side_pots |-> <<>>]

\* Pot.reset
PotReset(pot) == EmptyPot

\* variant: add_bet records the amount under the name only the first time
add_bet_FirstBetOnly(pot, name, amount) ==
    LET pc == pot.player_contributions
    IN [pot EXCEPT
          !.player_contributions =
              [n \in (DOMAIN pc) \cup {name} |->
                  IF n \in DOMAIN pc THEN pc[n] ELSE amount],
          !.main_pot = pot.main_pot + amount]

\* Pot.add_bet
add_bet(pot, name, amount) ==
    LET pc == pot.player_contributions
        old == IF name \in DOMAIN pc THEN pc[name] ELSE 0
    IN [pot EXCEPT
          !.player_contributions =
              [n \in (DOMAIN pc) \cup {name} |->
                  IF n = name THEN old + amount ELSE pc[n]],
          !.main_pot = pot.main_pot + amount]

\* Pot.get_total_pot
get_total_pot(pot) == pot.main_pot

\* contributions.sort(key=lambda x: x[1]): a stable insertion sort of the
\* (name, amount) pairs by amount
RECURSIVE InsertByAmount(_, _)
InsertByAmount(sorted, e) ==
    IF sorted = <<>> THEN <<e>>
    ELSE IF sorted[Len(sorted)].amount <= e.amount THEN Append(sorted, e)
         ELSE Append(InsertByAmount(SubSeq(sorted, 1, Len(sorted) - 1), e),
                     sorted[Len(sorted)])

RECURSIVE SortByAmount(_)
SortByAmount(s) ==
    IF s = <<>> THEN <<>>
    ELSE InsertByAmount(SortByAmount(SubSeq(s, 1, Len(s) - 1)), s[Len(s)])

\* SidePot.__init__
SidePot(amount, eligible_players) ==
    [amount |-> amount, eligible_players |-> eligible_players]

\* the loop of create_side_pots over the sorted contributions: `remaining`
\* is remaining_players, `previous` is previous_amount, `pots` is side_pots
RECURSIVE SidePotLoop(_, _, _, _)
SidePotLoop(contributions, remaining, previous, pots) ==
    IF contributions = <<>> THEN pots
    ELSE LET cur == contributions[1]
             rise == cur.amount > previous
             pot_amount == (cur.amount - previous) * Len(remaining)
             eligible == SelectSeq(remaining, is_in_hand)
             pots2 == IF rise /\ pot_amount > 0 /\ eligible # <<>>
                      THEN Append(pots,
                                  SidePot(pot_amount,
                                          [i \in 1..Len(eligible) |-> eligible[i].name]))
                      ELSE pots
             IsNotCur(q) == q.name # cur.name
         IN SidePotLoop(Tail(contributions),
                        SelectSeq(remaining, IsNotCur),
                        IF rise THEN cur.amount ELSE previous,
                        pots2)

\* create_side_pots without the sort: the contributions are taken in the
\* order of the players
create_side_pots_Unsorted(pot, ps) ==
    IF DOMAIN pot.player_contributions = {} THEN pot
    ELSE LET pc == pot.player_contributions
             Contributed(q) == q.name \in DOMAIN pc
             contributors == SelectSeq(ps, Contributed)
             contributions ==
                 [i \in 1..Len(contributors) |->
                     [name |-> contributors[i].name,
                      amount |-> pc[contributors[i].name]]]
         IN [pot EXCEPT !.side_pots = SidePotLoop(contributions, ps, 0, <<>>)]

\* Pot.create_side_pots(players)
create_side_pots(pot, ps) ==
    IF DOMAIN pot.player_contributions = {} THEN pot
    ELSE LET pc == pot.player_contributions
             Contributed(q) == q.name \in DOMAIN pc
             contributors == SelectSeq(ps, Contributed)
             contributions ==
                 SortByAmount([i \in 1..Len(contributors) |->
                                  [name |-> contributors[i].name,
                                   amount |-> pc[contributors[i].name]]])
         IN [pot EXCEPT !.side_pots = SidePotLoop(contributions, ps, 0, <<>>)]

\* WinnerShare with the odd chips handed to the last winners instead of the
\* first
WinnerShare_OddChipsLast(amount, k, j) ==
    (amount \div k) + (IF j >= k - (amount % k) THEN 1 ELSE 0)

\* the share of the j-th (0-based) of k winners of `amount` chips: the split
\* used by Pot.distribute_winnings and by Game._showdown
WinnerShare(amount, k, j) ==
    (amount \div k) + (IF j < (amount % k) THEN 1 ELSE 0)

\* the winners of layer i (1-based here): those of winners_by_pot[i] that
\* are eligible for the layer, in the order given
PotWinners(pot, winners_by_pot, i) ==
    LET Eligible(n) ==
            \E k \in 1..Len(pot.side_pots[i].eligible_players) :
                pot.side_pots[i].eligible_players[k] = n
    IN IF i <= Len(winners_by_pot) THEN SelectSeq(winners_by_pot[i], Eligible)
       ELSE <<>>

\* the loop over the winners of one layer: the j-th (0-based) winner of
\* pot_winners is credited its share in the winnings dict
RECURSIVE PayLayer(_, _, _, _)
PayLayer(winnings, pot_winners, amount, j) ==
    IF j >= Len(pot_winners) THEN winnings
    ELSE LET winner == pot_winners[j + 1]
             old == IF winner \in DOMAIN winnings THEN winnings[winner] ELSE 0
         IN PayLayer((winner :> old + WinnerShare(amount, Len(pot_winners), j))
                         @@ winnings,
                     pot_winners, amount, j + 1)

\* the loop over the side pots, from layer i (1-based here) on
RECURSIVE DistributeFrom(_, _, _, _)
DistributeFrom(pot, winners_by_pot, i, winnings) ==
    IF i > Len(pot.side_pots) THEN winnings
    ELSE DistributeFrom(pot, winners_by_pot, i + 1,
                        PayLayer(winnings, PotWinners(pot, winners_by_pot, i),
                                 pot.side_pots[i].amount, 0))

\* Pot.distribute_winnings(winners_by_pot): the winnings dict, as a function
\* from the names that got an entry to their amounts
distribute_winnings(pot, winners_by_pot) ==
    DistributeFrom(pot, winners_by_pot, 1, <<>>)

(***************************************************************************)
(* Game orchestrator (src/game/game_engine.py).  The methods of Game are   *)
(* operators from a game record g to the game record they leave behind.    *)
(***************************************************************************)
WAITING == "waiting"
PRE_FLOP == "pre_flop"
FLOP == "flop"
TURN == "turn"
RIVER == "river"
SHOWDOWN == "showdown"
HAND_COMPLETE == "hand_complete"
BettingPhases == {PRE_FLOP, FLOP, TURN, RIVER}

\* the game as one record
G ==
    [players |-> players, phase |-> phase, hand_number |-> hand_number,
     deck |-> deck, community_cards |-> community_cards,
     pot |-> [main_pot |-> main_pot,
              player_contributions |-> player_contributions,
              side_pots |-> side_pots],
     dealer_position |-> dealer_position,
     current_player_index |-> current_player_index,
     last_raiser_index |-> last_raiser_index,
     current_bet |-> current_bet, min_raise |-> min_raise]

\* Game.__init__
NewGame ==
    [players |-> <<>>, phase |-> WAITING, hand_number |-> 0,
     deck |-> DeckReset, community_cards |-> <<>>, pot |-> EmptyPot,
     dealer_position |-> 0, current_player_index |-> 0,
     last_raiser_index |-> -1, current_bet |-> 0, min_raise |-> big_blind]

NumPlayers(g) == Len(g.players)
Funded(g) == {i \in 0..(Len(g.players) - 1) : HasChips(g.players[i + 1])}
CanAct(g) == {i \in 0..(Len(g.players) - 1) : can_act(g.players[i + 1])}
InHand(g) == {i \in 0..(Len(g.players) - 1) : is_in_hand(g.players[i + 1])}

\* the first seat (start + i) % n, i = lo, lo + 1, .., hi, that is in S;
\* -1 when the search finds none
FirstClockwise(start, lo, hi, n, S) ==
    LET hits == {i \in lo..hi : ((start + i) % n) \in S}
    IN IF hits = {} THEN -1
       ELSE (start + (CHOOSE i \in hits : \A j \in hits : i <= j)) % n

\* add_player without the test of the table size
add_player_NoLimit(g, name, chips) ==
    IF \E i \in 1..NumPlayers(g) : g.players[i].name = name
    THEN [g |-> g, ok |-> FALSE]
    ELSE [g |-> [g EXCEPT !.players =
                    Append(@, sit_in([NewPlayer(name, chips)
                                         EXCEPT !.position = NumPlayers(g)]))],
          ok |-> TRUE]

\* Game.add_player: the new game and the value returned
add_player(g, name, chips) ==
    IF NumPlayers(g) >= MaxSeats THEN [g |-> g, ok |-> FALSE]
    ELSE IF \E i \in 1..NumPlayers(g) : g.players[i].name = name
    THEN [g |-> g, ok |-> FALSE]
    ELSE [g |-> [g EXCEPT !.players =
                    Append(@, sit_in([NewPlayer(name, chips)
                                         EXCEPT !.position = NumPlayers(g)]))],
          ok |-> TRUE]

\* Game.remove_player: the first seat of that name is popped and the seats
\* left are given their new positions
remove_player(g, name) ==
    LET hits == {i \in 1..NumPlayers(g) : g.players[i].name = name}
    IN IF hits = {} THEN [g |-> g, ok |-> FALSE]
       ELSE LET i == CHOOSE k \in hits : \A j \in hits : k <= j
                left == SubSeq(g.players, 1, i - 1)
                            \o SubSeq(g.players, i + 1, NumPlayers(g))
            IN [g |-> [g EXCEPT !.players =
                          [j \in 1..Len(left) |->
                              [left[j] EXCEPT !.position = j - 1]]],
                ok |-> TRUE]

\* can_start_game content with a single funded seat
can_start_game_OneFunded(g) == Cardinality(Funded(g)) >= 1

can_start_game(g) == Cardinality(Funded(g)) >= 2

\* _move_dealer_button moving the button one seat on, funded or not
_move_dealer_button_NextSeat(g) ==
    IF Funded(g) = {} THEN g
    ELSE [g EXCEPT !.dealer_position = (g.dealer_position + 1) % NumPlayers(g)]

_move_dealer_button(g) ==
    IF Funded(g) = {} THEN g
    ELSE LET next == FirstClockwise(g.dealer_position, 1, NumPlayers(g),
                                    NumPlayers(g), Funded(g))
         IN IF next = -1 THEN g ELSE [g EXCEPT !.dealer_position = next]

\* one card to each seat of `order` in turn (a seat gets nothing once the
\* deck is empty)
RECURSIVE DealRound(_, _)
DealRound(g, order) ==
    IF order = <<>> THEN g
    ELSE LET one == DealCard(g.deck)
             g2 == IF one.card = 0 THEN g
                   ELSE [g EXCEPT !.deck = one.deck,
                                  !.players[order[1] + 1].hole_cards =
                                      Append(@, one.card)]
         IN DealRound(g2, Tail(order))

\* _deal_hole_cards giving each seat its two cards one after the other
_deal_hole_cards_TwoAtOnce(g) ==
    LET order == SetToSortedSeq(Funded(g))
    IN DealRound(g, [k \in 1..(2 * Len(order)) |-> order[(k + 1) \div 2]])

_deal_hole_cards(g) ==
    LET order == SetToSortedSeq(Funded(g))
    IN DealRound(g, order \o order)

_get_small_blind_position(g) ==
    LET active == Funded(g)
        n == Cardinality(active)
        dealer_pos_in_active ==
            IF g.dealer_position \in active
            THEN IndexIn(active, g.dealer_position) ELSE 0
    IN IF n < 2 THEN 0
       ELSE IF n = 2 THEN g.dealer_position
       ELSE Nth(active, (dealer_pos_in_active + 1) % n)

_get_big_blind_position(g) ==
    LET active == Funded(g)
        n == Cardinality(active)
        dealer_pos_in_active ==
            IF g.dealer_position \in active
            THEN IndexIn(active, g.dealer_position) ELSE 0
    IN IF n < 2 THEN 1
       ELSE IF n = 2 THEN Nth(active, (dealer_pos_in_active + 1) % n)
       ELSE Nth(active, (dealer_pos_in_active + 2) % n)

\* one blind: the seat posts it and the pot is credited with what moved
PostOne(g, seat, amount) ==
    LET m == post_blind(g.players[seat + 1], amount)
    IN [g EXCEPT !.players[seat + 1] = m.player,
                 !.pot = add_bet(@, m.player.name, m.amount)]

_post_blinds(g) ==
    IF Cardinality(Funded(g)) < 2 THEN g
    ELSE LET small_blind_idx == _get_small_blind_position(g)
             big_blind_idx == _get_big_blind_position(g)
             g1 == PostOne(g, small_blind_idx, small_blind)
             g2 == PostOne(g1, big_blind_idx, big_blind)
         IN [g2 EXCEPT !.current_bet = big_blind]

\* _set_first_player_to_act with the heads-up branch after the flop copied
\* from the preflop branch: the dealer acts first on every street
_set_first_player_to_act_DealerFirst(g) ==
    LET active == CanAct(g)
        n == NumPlayers(g)
    IN IF active = {} THEN g
       ELSE IF n = 2
       THEN [g EXCEPT !.current_player_index = g.dealer_position]
       ELSE IF g.phase = PRE_FLOP
       THEN LET next == FirstClockwise(_get_big_blind_position(g),
                                       1, n - 1, n, active)
            IN IF next = -1 THEN g
               ELSE [g EXCEPT !.current_player_index = next]
       ELSE LET next == FirstClockwise(_get_small_blind_position(g),
                                       0, n - 1, n, active)
            IN [g EXCEPT !.current_player_index =
                   IF next # -1 THEN next
                   ELSE CHOOSE i \in active : \A j \in active : i <= j]

_set_first_player_to_act(g) ==
    LET active == CanAct(g)
        n == NumPlayers(g)
    IN IF active = {} THEN g
       ELSE IF g.phase = PRE_FLOP
       THEN IF n = 2
            THEN [g EXCEPT !.current_player_index = g.dealer_position]
            ELSE LET next == FirstClockwise(_get_big_blind_position(g),
                                            1, n - 1, n, active)
                 IN IF next = -1 THEN g
                    ELSE [g EXCEPT !.current_player_index = next]
       ELSE IF n = 2
            THEN LET non_dealer == (g.dealer_position + 1) % n
                 IN [g EXCEPT !.current_player_index =
                        IF non_dealer \in active THEN non_dealer
                        ELSE g.dealer_position]
            ELSE LET next == FirstClockwise(_get_small_blind_position(g),
                                            0, n - 1, n, active)
                 IN [g EXCEPT !.current_player_index =
                        IF next # -1 THEN next
                        ELSE CHOOSE i \in active : \A j \in active : i <= j]

\* Game.start_new_hand with `shuffled` the deck random.shuffle leaves; the
\* caller gets ValueError and nothing changes unless can_start_game()
start_new_hand(g, shuffled) ==
    IF ~can_start_game(g) THEN [g |-> g, ok |-> FALSE]
    ELSE LET g1 == [g EXCEPT !.hand_number = @ + 1,
                             !.phase = PRE_FLOP,
                             !.community_cards = <<>>,
                             !.pot = PotReset(@),
                             !.current_bet = 0,
                             !.min_raise = big_blind,
                             !.last_raiser_index = -1,
                             !.players = NewHandAll(@)]
             g2 == _move_dealer_button(g1)
             g3 == [g2 EXCEPT !.deck = shuffled]
         IN [g |-> _set_first_player_to_act(_post_blinds(_deal_hole_cards(g3))),
             ok |-> TRUE]

\* _move_to_next_active_player searching the seats still in the hand, the
\* all-in ones included
_move_to_next_active_player_InHand(g) ==
    LET active == InHand(g)
        n == NumPlayers(g)
    IN IF active = {} THEN g
       ELSE LET next == FirstClockwise(g.current_player_index, 1, n, n, active)
            IN [g EXCEPT !.current_player_index =
                   IF next # -1 THEN next
                   ELSE CHOOSE i \in active : \A j \in active : i <= j]

_move_to_next_active_player(g) ==
    LET active == CanAct(g)
        n == NumPlayers(g)
    IN IF active = {} THEN g
       ELSE LET next == FirstClockwise(g.current_player_index, 1, n, n, active)
            IN [g EXCEPT !.current_player_index =
                   IF next # -1 THEN next
                   ELSE CHOOSE i \in active : \A j \in active : i <= j]

_next_player(g) == _move_to_next_active_player(g)

\* Game.get_current_player: the game it leaves and the seat returned (-1 for
\* None)
get_current_player(g) ==
    LET i == g.current_player_index
    IN IF 0 <= i /\ i < NumPlayers(g)
       THEN IF ~can_act(g.players[i + 1])
            THEN LET g2 == _move_to_next_active_player(g)
                 IN [g |-> g2, seat |-> g2.current_player_index]
            ELSE [g |-> g, seat |-> i]
       ELSE [g |-> g, seat |-> -1]

\* Game.get_game_state: the game it leaves and the name of the current
\* player it reports (-1 for None); it calls get_current_player twice, the
\* other entries of the dict are read from the fields
get_game_state(g) ==
    LET first == get_current_player(g)
        second == get_current_player(first.g)
    IN [g |-> second.g,
        current_player |-> IF first.seat # -1 /\ second.seat # -1
                           THEN second.g.players[second.seat + 1].name
                           ELSE -1]

\* get_valid_actions with Check offered whatever the seat has put in
get_valid_actions_CheckAlways(g, p) ==
    IF ~can_act(p) THEN {}
    ELSE {FOLD, CHECK}
         \cup (IF p.current_bet # g.current_bet
                  /\ g.current_bet - p.current_bet <= p.chips THEN {CALL}
               ELSE {})
         \cup (IF p.chips >= (g.current_bet + g.min_raise) - p.current_bet
               THEN {RAISE} ELSE {})
         \cup (IF p.chips > 0 THEN {ALLIN} ELSE {})

\* get_valid_actions with the Raise test taken against the whole stack,
\* the seat's bet of the round not counted
get_valid_actions_RaiseFromStack(g, p) ==
    IF ~can_act(p) THEN {}
    ELSE {FOLD}
         \cup (IF p.current_bet = g.current_bet THEN {CHECK}
               ELSE IF g.current_bet - p.current_bet <= p.chips THEN {CALL}
               ELSE {})
         \cup (IF p.chips >= g.current_bet + g.min_raise THEN {RAISE} ELSE {})
         \cup (IF p.chips > 0 THEN {ALLIN} ELSE {})

\* Game.get_valid_actions(player), as a set
get_valid_actions(g, p) ==
    IF ~can_act(p) THEN {}
    ELSE {FOLD}
         \cup (IF p.current_bet = g.current_bet THEN {CHECK}
               ELSE IF g.current_bet - p.current_bet <= p.chips THEN {CALL}
               ELSE {})
         \cup (IF p.chips >= (g.current_bet + g.min_raise) - p.current_bet
               THEN {RAISE} ELSE {})
         \cup (IF p.chips > 0 THEN {ALLIN} ELSE {})

_is_betting_round_complete(g) ==
    LET active == CanAct(g)
        in_hand == InHand(g)
    IN IF Cardinality(active) <= 1 THEN TRUE
       ELSE IF \E i \in active : g.players[i + 1].last_action = NoAction
       THEN FALSE
       ELSE IF Cardinality(in_hand) <= 1 THEN TRUE
       ELSE LET max_bet ==
                    CHOOSE b \in {g.players[i + 1].current_bet : i \in in_hand} :
                        \A i \in in_hand : g.players[i + 1].current_bet <= b
            IN \A i \in in_hand :
                   \/ g.players[i + 1].status = ALL_IN
                   \/ g.players[i + 1].current_bet = max_bet

\* variant: the community cards are dealt without a burn
DealStreet_NoBurn(g, count) ==
    LET dealt == DealCards(g.deck, count)
    IN [g EXCEPT !.deck = dealt.deck,
                 !.community_cards = @ \o dealt.cards]

\* burn one card, then deal `count` community cards
DealStreet(g, count) ==
    LET burn == DealCard(g.deck)
        dealt == DealCards(burn.deck, count)
    IN [g EXCEPT !.deck = dealt.deck,
                 !.community_cards = @ \o dealt.cards]

_deal_flop(g) == DealStreet(g, 3)
_deal_turn(g) == DealStreet(g, 1)
_deal_river(g) == DealStreet(g, 1)

\* _determine_winners returning every seat that showed a hand
_determine_winners_Everyone(player_hands) == {e[1] : e \in player_hands}

\* the seats holding the best hand; player_hands is the dict of _showdown
\* as a set of <<seat, HandResult>> pairs
_determine_winners(player_hands) ==
    IF player_hands = {} THEN {}
    ELSE LET best_hand ==
                 CHOOSE h \in {e[2] : e \in player_hands} :
                     \A e \in player_hands : ~HandLt(h, e[2])
         IN {e[1] : e \in {x \in player_hands : HandEq(x[2], best_hand)}}

\* every seat of `winners` is paid its share of `total`, the winners taken
\* in seat order
RECURSIVE PayFrom(_, _, _, _)
PayFrom(ps, i, winners, total) ==
    IF i > Len(ps) THEN <<>>
    ELSE <<IF (i - 1) \in winners
           THEN win_chips(ps[i], WinnerShare(total, Cardinality(winners),
                                             IndexIn(winners, i - 1)))
           ELSE ps[i]>> \o PayFrom(ps, i + 1, winners, total)

PayWinners(ps, winners, total) == PayFrom(ps, 1, winners, total)

\* Game._showdown: the game it leaves, and whether evaluate_hand raised
\* ValueError (then nothing was paid and the phase was not set)
_showdown(g) ==
    LET active == InHand(g)
        Seven(i) == g.players[i + 1].hole_cards \o g.community_cards
    IN IF active = {}
       THEN [g |-> [g EXCEPT !.phase = HAND_COMPLETE], raised |-> FALSE]
       ELSE IF Cardinality(active) = 1
       THEN [g |-> [g EXCEPT !.phase = HAND_COMPLETE,
                             !.players = PayWinners(@, active, get_total_pot(g.pot))],
             raised |-> FALSE]
       ELSE IF \E i \in active : Len(Seven(i)) # 7
       THEN [g |-> g, raised |-> TRUE]
       ELSE LET player_hands == {<<i, evaluate_hand(Seven(i))>> : i \in active}
                winners == _determine_winners(player_hands)
            IN [g |-> [g EXCEPT !.phase = HAND_COMPLETE,
                                !.players = PayWinners(@, winners,
                                                       get_total_pot(g.pot))],
                raised |-> FALSE]

_handle_single_winner(g) ==
    LET in_hand == InHand(g)
    IN [g EXCEPT !.phase = HAND_COMPLETE,
                 !.players = IF Cardinality(in_hand) = 1
                             THEN PayWinners(@, in_hand, get_total_pot(g.pot))
                             ELSE @]

\* variant: the table bet of the new round is the big blind
_advance_to_next_phase_BetToBigBlind(g) ==
    LET g1 == [g EXCEPT !.players = NewBettingRoundAll(@),
                        !.current_bet = big_blind,
                        !.min_raise = big_blind]
    IN IF g.phase = PRE_FLOP
       THEN [g |-> _set_first_player_to_act([_deal_flop(g1) EXCEPT !.phase = FLOP]),
             raised |-> FALSE]
       ELSE IF g.phase = FLOP
       THEN [g |-> _set_first_player_to_act([_deal_turn(g1) EXCEPT !.phase = TURN]),
             raised |-> FALSE]
       ELSE IF g.phase = TURN
       THEN [g |-> _set_first_player_to_act([_deal_river(g1) EXCEPT !.phase = RIVER]),
             raised |-> FALSE]
       ELSE IF g.phase = RIVER THEN _showdown(g1)
       ELSE [g |-> g1, raised |-> FALSE]

_advance_to_next_phase(g) ==
    LET g1 == [g EXCEPT !.players = NewBettingRoundAll(@),
                        !.current_bet = 0,
                        !.min_raise = big_blind]
    IN IF g.phase = PRE_FLOP
       THEN [g |-> _set_first_player_to_act([_deal_flop(g1) EXCEPT !.phase = FLOP]),
             raised |-> FALSE]
       ELSE IF g.phase = FLOP
       THEN [g |-> _set_first_player_to_act([_deal_turn(g1) EXCEPT !.phase = TURN]),
             raised |-> FALSE]
       ELSE IF g.phase = TURN
       THEN [g |-> _set_first_player_to_act([_deal_river(g1) EXCEPT !.phase = RIVER]),
             raised |-> FALSE]
       ELSE IF g.phase = RIVER THEN _showdown(g1)
       ELSE [g |-> g1, raised |-> FALSE]

\* the chosen action applied to seat s: player_action between the checks of
\* the request and the move to the next player
ApplyAction(g, s, action, amount) ==
    LET p == g.players[s + 1]
    IN IF action = FOLD THEN [g EXCEPT !.players[s + 1] = fold(p)]
       ELSE IF action = CHECK
       THEN [g EXCEPT !.players[s + 1].last_action = CHECK]
       ELSE IF action = CALL
       THEN LET m == call(p, g.current_bet)
            IN [g EXCEPT !.players[s + 1] = m.player,
                         !.pot = add_bet(@, p.name, m.amount)]
       ELSE IF action = RAISE
       THEN LET m == raise_bet(p, amount)
            IN [g EXCEPT !.players[s + 1] = m.player,
                         !.pot = add_bet(@, p.name, m.amount),
                         !.current_bet = m.player.current_bet,
                         !.min_raise = amount - (m.player.current_bet - m.amount),
                         !.last_raiser_index = g.current_player_index]
       ELSE LET m == all_in(p)
                higher == m.player.current_bet > g.current_bet
            IN [g EXCEPT !.players[s + 1] = m.player,
                         !.pot = add_bet(@, p.name, m.amount),
                         !.current_bet = IF higher THEN m.player.current_bet ELSE @,
                         !.min_raise = IF higher
                                       THEN m.player.current_bet - g.current_bet
                                       ELSE @,
                         !.last_raiser_index = IF higher
                                               THEN g.current_player_index ELSE @]

\* AfterAction with the two tests swapped: the round-complete test comes
\* before the single-winner test
AfterAction_RoundFirst(g) ==
    LET g1 == _next_player(g)
    IN IF _is_betting_round_complete(g1) THEN _advance_to_next_phase(g1)
       ELSE IF Cardinality(InHand(g1)) <= 1
       THEN [g |-> _handle_single_winner(g1), raised |-> FALSE]
       ELSE [g |-> g1, raised |-> FALSE]

\* what follows the action in player_action: next player, single winner,
\* betting round completion
AfterAction(g) ==
    LET g1 == _next_player(g)
    IN IF Cardinality(InHand(g1)) <= 1
       THEN [g |-> _handle_single_winner(g1), raised |-> FALSE]
       ELSE IF _is_betting_round_complete(g1) THEN _advance_to_next_phase(g1)
       ELSE [g |-> g1, raised |-> FALSE]

\* player_action without the test of the Raise against the minimum
player_action_AnyRaise(g, s, action, amount) ==
    IF ~can_act(g.players[s + 1]) THEN [g |-> g, out |-> "fail"]
    ELSE LET cur == get_current_player(g)
             g0 == cur.g
         IN IF cur.seat # s THEN [g |-> g0, out |-> "fail"]
            ELSE IF action \notin get_valid_actions(g0, g0.players[s + 1])
            THEN [g |-> g0, out |-> "fail"]
            ELSE LET done == AfterAction(ApplyAction(g0, s, action, amount))
                 IN [g |-> done.g,
                     out |-> IF done.raised THEN "raised" ELSE "ok"]

\* Game.player_action(player, action, amount) for the player of seat s: the
\* game it leaves and its outcome: "ok" (True), "fail" (False) or "raised"
\* (ValueError out of _showdown)
player_action(g, s, action, amount) ==
    IF ~can_act(g.players[s + 1]) THEN [g |-> g, out |-> "fail"]
    ELSE LET cur == get_current_player(g)
             g0 == cur.g
         IN IF cur.seat # s THEN [g |-> g0, out |-> "fail"]
            ELSE IF action \notin get_valid_actions(g0, g0.players[s + 1])
            THEN [g |-> g0, out |-> "fail"]
            ELSE IF action = RAISE /\ amount < g0.current_bet + g0.min_raise
            THEN [g |-> g0, out |-> "fail"]
            ELSE LET done == AfterAction(ApplyAction(g0, s, action, amount))
                 IN [g |-> done.g,
                     out |-> IF done.raised THEN "raised" ELSE "ok"]

(***************************************************************************)
(* The calls made on the engine.  random.shuffle may leave any permutation *)
(* of the deck; the model offers two: the order of Deck.reset() (the ace   *)
(* of spades is dealt first), and a deck that puts a royal flush (two      *)
(* funded seats) or an ace-high straight (three funded seats) on the       *)
(* board, so that every in-hand seat ties.                                 *)
(***************************************************************************)
TieTop ==
    <<CardOf(0, 2), CardOf(1, 3), CardOf(2, 4), CardOf(1, 7), CardOf(2, 8),
      CardOf(3, 11), CardOf(3, 10), CardOf(3, 14), CardOf(0, 11),
      CardOf(3, 13), CardOf(1, 9), CardOf(3, 12), CardOf(2, 9),
      CardOf(0, 10)>>

Shuffles == {DeckReset, DeckDealing(TieTop)}

\* the game record g becomes the state
Becomes(g) ==
    /\ players' = g.players
    /\ phase' = g.phase
    /\ hand_number' = g.hand_number
    /\ deck' = g.deck
    /\ community_cards' = g.community_cards
    /\ main_pot' = g.pot.main_pot
    /\ player_contributions' = g.pot.player_contributions
    /\ side_pots' = g.pot.side_pots
    /\ dealer_position' = g.dealer_position
    /\ current_player_index' = g.current_player_index
    /\ last_raiser_index' = g.last_raiser_index
    /\ current_bet' = g.current_bet
    /\ min_raise' = g.min_raise
    /\ UNCHANGED <<eval_cards, eval_result>>

\* the table after Game(small_blind=1, big_blind=2)
Table ==
    /\ players = NewGame.players
    /\ phase = NewGame.phase
    /\ hand_number = NewGame.hand_number
    /\ deck = NewGame.deck
    /\ community_cards = NewGame.community_cards
    /\ main_pot = NewGame.pot.main_pot
    /\ player_contributions = NewGame.pot.player_contributions
    /\ side_pots = NewGame.pot.side_pots
    /\ dealer_position = NewGame.dealer_position
    /\ current_player_index = NewGame.current_player_index
    /\ last_raiser_index = NewGame.last_raiser_index
    /\ current_bet = NewGame.current_bet
    /\ min_raise = NewGame.min_raise
    /\ stray = 0

Init ==
    /\ players = NewGame.players
    /\ phase = NewGame.phase
    /\ hand_number = NewGame.hand_number
    /\ deck = NewGame.deck
    /\ community_cards = NewGame.community_cards
    /\ main_pot = NewGame.pot.main_pot
    /\ player_contributions = NewGame.pot.player_contributions
    /\ side_pots = NewGame.pot.side_pots
    /\ dealer_position = NewGame.dealer_position
    /\ current_player_index = NewGame.current_player_index
    /\ last_raiser_index = NewGame.last_raiser_index
    /\ current_bet = NewGame.current_bet
    /\ min_raise = NewGame.min_raise
    /\ stray = 0
    /\ eval_cards = <<>>
    /\ eval_result = <<>>

\* The engine guards none of its entry points by phase, and the server
\* forwards join, start_hand and action messages whenever they arrive.  A
\* call is in protocol when it is a join or a start between hands, or an
\* action during a betting round.  A run spends MaxEvents on the hands it
\* starts and on the other calls that change the table.
Call(betting, g) ==
    /\ Becomes(g)
    /\ IF (phase \in BettingPhases) = betting \/ g = G
       THEN UNCHANGED stray
       ELSE hand_number + stray < MaxEvents /\ stray' = stray + 1

\* names are opaque: a new seat takes the least name not yet used, or the
\* request repeats a name already seated
AddPlayer(name, chips) ==
    \E r \in {add_player(G, name, chips)} : Call(FALSE, r.g)

StartNewHand(shuffled) ==
    /\ hand_number + stray < MaxEvents
    /\ UNCHANGED stray
    /\ \E r \in {start_new_hand(G, shuffled)} : Becomes(r.g)

PlayerAction(s, action, amount) ==
    \E r \in {player_action(G, s, action, amount)} : Call(TRUE, r.g)

GetCurrentPlayer ==
    /\ UNCHANGED stray
    /\ \E r \in {get_current_player(G)} : Becomes(r.g)

GetGameState ==
    /\ UNCHANGED stray
    /\ \E r \in {get_game_state(G)} : Becomes(r.g)

Amounts(action) == IF action = RAISE THEN 0..MaxRaise ELSE {0}

Next ==
    \/ \E name \in 1..Min(Len(players) + 1, MaxNames), chips \in StackChoices :
           AddPlayer(name, chips)
    \/ \E shuffled \in Shuffles : StartNewHand(shuffled)
    \/ \E s \in 0..(Len(players) - 1), action \in PlayerActions :
           \E amount \in Amounts(action) : PlayerAction(s, action, amount)
    \/ GetCurrentPlayer
    \/ GetGameState

Spec == Init /\ [][Next]_vars

\* The table while it is only seated: players join and leave in any order,
\* under more names than the table has seats, and no hand is started.
RemovePlayer(name) ==
    /\ UNCHANGED stray
    /\ \E r \in {remove_player(G, name)} : Becomes(r.g)

NextSeats ==
    \/ \E name \in 1..MaxSeatNames : AddPlayer(name, MaxStack)
    \/ \E name \in 1..MaxSeatNames : RemovePlayer(name)

SpecSeats == Init /\ [][NextSeats]_vars

\* The hand evaluator on its own.  Hands are drawn from the first cards
\* of a deck stacked so that these hold every category: the spade royal
\* flush and wheel, the four aces, and low hearts and the six of spades
\* for pairs, full houses and the six-high straight.
EvalTop ==
    <<CardOf(0, 14), CardOf(0, 13), CardOf(0, 12), CardOf(0, 11),
      CardOf(0, 10), CardOf(0, 2), CardOf(0, 3), CardOf(0, 4),
      CardOf(0, 5), CardOf(1, 14), CardOf(2, 14), CardOf(3, 14),
      CardOf(1, 2), CardOf(1, 5), CardOf(1, 6), CardOf(1, 3),
      CardOf(1, 4), CardOf(0, 6)>>

\* the first n cards dealt from the stacked deck
TopCards(n) == [i \in 1..n |-> DeckDealing(EvalTop)[53 - i]]

\* the hands of k cards out of s, each in the order of s
RECURSIVE Hands(_, _)
Hands(s, k) ==
    IF k = 0 THEN {<<>>}
    ELSE IF Len(s) < k THEN {}
    ELSE {<<Head(s)>> \o h : h \in Hands(Tail(s), k - 1)}
         \cup Hands(Tail(s), k)

FiveCardHands == Hands(TopCards(MaxFiveDeck), 5)
SevenCardHands == Hands(TopCards(MaxSevenDeck), 7)

InitFive == Table /\ eval_cards \in FiveCardHands /\ eval_result = <<>>

EvaluateFive ==
    /\ Len(eval_cards) = 5
    /\ eval_result' = _evaluate_five_cards(eval_cards)
    /\ UNCHANGED <<players, phase, hand_number, deck, community_cards,
                   main_pot, player_contributions, side_pots,
                   dealer_position, current_player_index,
                   last_raiser_index, current_bet, min_raise, stray,
                   eval_cards>>

NextFive == EvaluateFive

SpecFive == InitFive /\ [][NextFive]_vars

InitSeven == Table /\ eval_cards \in SevenCardHands /\ eval_result = <<>>

EvaluateHand ==
    /\ Len(eval_cards) = 7
    /\ eval_result' = evaluate_hand(eval_cards)
    /\ UNCHANGED <<players, phase, hand_number, deck, community_cards,
                   main_pot, player_contributions, side_pots,
                   dealer_position, current_player_index,
                   last_raiser_index, current_bet, min_raise, stray,
                   eval_cards>>

NextSeven == EvaluateHand

SpecSeven == InitSeven /\ [][NextSeven]_vars

(***************************************************************************)
(* Properties.  The requests a client can submit in the current state:     *)
(* a seat, an action and an amount.                                        *)
(***************************************************************************)
Seats == 0..(Len(players) - 1)

\* the game on which player_action decides how the call ends: the action
\* is applied and the turn has moved on, the single-winner and
\* round-complete tests are still to come
Judged(g, s, action, amount) ==
    _next_player(ApplyAction(get_current_player(g).g, s, action, amount))

MaxBet(g, S) ==
    CHOOSE b \in {g.players[i + 1].current_bet : i \in S} :
        \A i \in S : g.players[i + 1].current_bet <= b

\* every seat that can act has acted in this round, and every in-hand seat
\* that is not all-in has matched the largest bet of the in-hand seats
RoundSettled(g) ==
    /\ \A i \in CanAct(g) : g.players[i + 1].last_action # NoAction
    /\ \A i \in InHand(g) :
           g.players[i + 1].status # ALL_IN
               => g.players[i + 1].current_bet = MaxBet(g, InHand(g))

\* C1: an accepted action moves the phase out of a betting round with two
\* or more seats still in the hand only when, after the action, every seat
\* that can act has acted in the round and every in-hand seat that is not
\* all-in has matched the largest bet; a lone Active seat facing a larger
\* all-in has to act first.
C1_StreetEndsOnlyWhenSettled ==
    (phase \in BettingPhases /\ stray = 0) =>
        \A s \in Seats, action \in PlayerActions :
            \A amount \in Amounts(action) :
                LET r == player_action(G, s, action, amount)
                IN (r.out = "ok" /\ r.g.phase # phase
                        /\ Cardinality(InHand(r.g)) > 1)
                       => RoundSettled(Judged(G, s, action, amount))

\* C2: a request from a seat that is not the current actor, or for an
\* action outside get_valid_actions of the seat, returns failure and
\* leaves the whole game as it was.
C2_RejectedRequestChangesNothing ==
    stray = 0 =>
        \A s \in Seats, action \in PlayerActions :
            \A amount \in Amounts(action) :
                (\/ get_current_player(G).seat # s
                 \/ action \notin get_valid_actions(G, players[s + 1]))
                    => player_action(G, s, action, amount)
                           = [g |-> G, out |-> "fail"]

\* what seat i can win at most: from every contribution, the part that
\* does not exceed its own
LayersOf(g, i) ==
    LET pc == g.pot.player_contributions
        mine == IF g.players[i + 1].name \in DOMAIN pc
                THEN pc[g.players[i + 1].name] ELSE 0
        names == SetToSortedSeq(DOMAIN pc)
    IN SumSeq([k \in 1..Len(names) |-> Min(pc[names[k]], mine)])

\* C3: when a showdown resolves a hand in which the only two in-hand seats
\* are both all-in, the seat that put in more ends with at least the
\* excess over the other's contribution, whoever wins, and neither seat
\* wins more than the layers it contributed to.
C3_AllInWinsOnlyItsLayers ==
    [][(/\ phase = RIVER
        /\ phase' = HAND_COMPLETE
        /\ stray' = 0
        /\ Cardinality(InHand(G')) = 2
        /\ \A i \in InHand(G') : players'[i + 1].status = ALL_IN)
       => \A i \in InHand(G'), j \in InHand(G') :
              /\ players'[i + 1].chips <= LayersOf(G', i)
              /\ players'[j + 1].chips >=
                     players'[j + 1].total_bet - players'[i + 1].total_bet]_vars

\* C4: the engine is never left in a betting round in which no seat can
\* act and no request is accepted: with every in-hand seat all-in the
\* board is dealt out and the hand is resolved.
C4_AllInHandIsNotStuck ==
    (phase \in BettingPhases /\ CanAct(G) = {} /\ stray = 0)
        => \E s \in Seats, action \in PlayerActions :
               \E amount \in Amounts(action) :
                   player_action(G, s, action, amount).out = "ok"

\* the chips a step pays to seat i: what its stack gains beyond the chips
\* it moved into the pot in the same step
Paid(i) ==
    (players'[i + 1].chips - players[i + 1].chips)
        + (players'[i + 1].total_bet - players[i + 1].total_bet)

\* a step of player_action that was accepted during a betting round of the
\* hand under way (a rejected request changes no player and no phase)
ActionStep ==
    /\ phase \in BettingPhases
    /\ hand_number' = hand_number
    /\ Len(players') = Len(players)
    /\ (players' # players \/ phase' # phase)

\* C5: an accepted action in a betting phase that leaves exactly one seat
\* in the hand pays that seat the entire pot in the same call, sets the
\* phase to HandComplete and deals no community card.
C5_SoleSurvivorIsPaidAtOnce ==
    [][(ActionStep /\ Cardinality(InHand(G')) = 1)
       => /\ phase' = HAND_COMPLETE
          /\ community_cards' = community_cards
          /\ \A w \in InHand(G') : Paid(w) = get_total_pot(G'.pot)
          /\ \A i \in Seats \ InHand(G') : Paid(i) = 0]_vars

\* a hand of three seats was started and two of them folded before the
\* flop: the third holds the pot and the board is empty
C5_Witness ==
    /\ phase = HAND_COMPLETE
    /\ Len(players) = 3
    /\ stray = 0
    /\ community_cards = <<>>
    /\ Cardinality(InHand(G)) = 1
    /\ Cardinality({i \in Seats : players[i + 1].status = FOLDED}) = 2
    /\ \E w \in InHand(G) : players[w + 1].chips > MaxStack

\* the seats that put chips into the pot
Contributors(g) ==
    LET Gave(q) == q.name \in DOMAIN g.pot.player_contributions
    IN SelectSeq(g.players, Gave)

SidePotTotal(pot) ==
    SumSeq([i \in 1..Len(pot.side_pots) |-> pot.side_pots[i].amount])

\* C6: whatever the contributions and the fold statuses of the
\* contributors, the side pots create_side_pots builds add up to the sum of
\* the contributions.
C6_SidePotsHoldEveryChip ==
    LET pot == create_side_pots(G.pot, Contributors(G))
    IN stray = 0 => SidePotTotal(pot) = get_total_pot(pot)

PhasePath ==
    {<<WAITING, PRE_FLOP>>, <<PRE_FLOP, FLOP>>, <<FLOP, TURN>>,
     <<TURN, RIVER>>, <<RIVER, SHOWDOWN>>, <<SHOWDOWN, HAND_COMPLETE>>,
     <<HAND_COMPLETE, PRE_FLOP>>}
        \cup {<<b, HAND_COMPLETE>> : b \in BettingPhases}

\* C7: the phase changes only along Waiting -> PreFlop -> Flop -> Turn ->
\* River -> Showdown/HandComplete, from a betting phase to HandComplete,
\* and from HandComplete to PreFlop.
C7_PhaseFollowsTheCycle ==
    [][phase' # phase => <<phase, phase'>> \in PhasePath]_vars

\* C8: a Raise from the seat to act that is below the table bet plus the
\* minimum raise, or above what the seat's stack covers, is rejected and
\* changes nothing.
C8_BadRaiseIsRejected ==
    (phase \in BettingPhases /\ stray = 0) =>
        \A s \in Seats, amount \in Amounts(RAISE) :
            (/\ s = current_player_index
             /\ \/ amount < current_bet + min_raise
                \/ amount - players[s + 1].current_bet > players[s + 1].chips)
                => player_action(G, s, RAISE, amount)
                       = [g |-> G, out |-> "fail"]

\* C8 as amended: a Raise from the seat at current_player_index below the
\* table bet plus the minimum raise is rejected and changes nothing; a
\* Raise of at least that much from that seat, when Raise is a valid
\* action, that asks for more than the stack covers is accepted and puts
\* the seat all-in for its whole stack.
C8_LowRaiseRejectedHighRaiseAllIn ==
    \A s \in Seats \cap {current_player_index}, amount \in Amounts(RAISE) :
        \A r \in {player_action(G, s, RAISE, amount)} :
            /\ amount < current_bet + min_raise
                   => r = [g |-> G, out |-> "fail"]
            /\ (/\ can_act(players[s + 1])
                /\ RAISE \in get_valid_actions(G, players[s + 1])
                /\ amount >= current_bet + min_raise
                /\ amount - players[s + 1].current_bet > players[s + 1].chips)
                   => /\ r.out # "fail"
                      /\ r.g.players[s + 1].status = ALL_IN
                      /\ r.g.players[s + 1].total_bet
                             = players[s + 1].total_bet + players[s + 1].chips

\* the last raiser went all-in in this round and the minimum raise exceeds
\* its whole bet of the round: its Raise asked for more than the stack held
C8_Witness ==
    /\ phase \in BettingPhases
    /\ stray = 0
    /\ last_raiser_index \in Seats
    /\ players[last_raiser_index + 1].status = ALL_IN
    /\ players[last_raiser_index + 1].last_action = ALLIN
    /\ players[last_raiser_index + 1].current_bet > 0
    /\ min_raise > players[last_raiser_index + 1].current_bet

\* the seven cards of seat i
SevenCards(g, i) == g.players[i + 1].hole_cards \o g.community_cards

\* the in-hand seats whose hand no in-hand seat's hand beats
BestSeats(g) ==
    \* each hand is evaluated once
    LET hands == {<<i, evaluate_hand(SevenCards(g, i))>> : i \in InHand(g)}
    IN {e[1] : e \in {x \in hands : \A y \in hands : ~HandLt(x[2], y[2])}}

\* the names of the seats of S, in seat order
NamesOf(g, S) ==
    LET seats == SetToSortedSeq(S)
    IN [k \in 1..Len(seats) |-> g.players[seats[k] + 1].name]

\* the split of one layer: each of the k eligible winners of W gets
\* floor(amount / k) and the first amount mod k of them one chip more
LayerSplitInOrder(g, layer, W) ==
    LET elig == {i \in W : \E k \in 1..Len(layer.eligible_players) :
                               layer.eligible_players[k] = g.players[i + 1].name}
    IN \A won \in {distribute_winnings([g.pot EXCEPT !.side_pots = <<layer>>],
                                       <<NamesOf(g, W)>>)} :
           /\ DOMAIN won = {g.players[i + 1].name : i \in elig}
           /\ \A i \in elig :
                  won[g.players[i + 1].name] =
                      (layer.amount \div Cardinality(elig))
                          + (IF IndexIn(elig, i) < layer.amount % Cardinality(elig)
                             THEN 1 ELSE 0)

\* C9: at a showdown the k seats tied for the best hand are paid
\* floor(pot / k) each and the first pot mod k of them, in seat order, one
\* chip more, nobody else is paid; distribute_winnings splits every layer
\* the same way among the layer's winners.
C9_TiedWinnersSplitInSeatOrder ==
    /\ [](\A pot \in {create_side_pots(G.pot, players)} :
              \A n \in 1..Len(pot.side_pots), W \in SUBSET Seats :
                  LayerSplitInOrder(G, pot.side_pots[n], W))
    /\ [][(ActionStep /\ phase = RIVER /\ phase' = HAND_COMPLETE
              /\ Cardinality(InHand(G')) > 1)
          => \A winners \in {BestSeats(G')} :
                 LET k == Cardinality(winners)
                     total == get_total_pot(G'.pot)
                 IN /\ \A w \in winners :
                           Paid(w) = (total \div k)
                                         + (IF IndexIn(winners, w) < total % k
                                            THEN 1 ELSE 0)
                    /\ \A i \in Seats \ winners : Paid(i) = 0]_vars

\* three dealt-in seats tied at the showdown of a pot that three does not
\* divide: the lowest seats hold the odd chips
C9_Witness ==
    /\ phase = HAND_COMPLETE
    /\ stray = 0
    /\ hand_number = 1
    /\ Len(community_cards) = 5
    /\ Cardinality(InHand(G)) = 3
    /\ \A i \in InHand(G) : Len(players[i + 1].hole_cards) = 2
    /\ BestSeats(G) = InHand(G)
    /\ main_pot % 3 # 0
    /\ \E i \in Seats, j \in Seats :
           /\ i < j
           /\ players[i + 1].chips + players[i + 1].total_bet
                  > players[j + 1].chips + players[j + 1].total_bet

\* a step that starts a hand of two seats with the button at seat 0
HeadsUpStart ==
    /\ hand_number' = hand_number + 1
    /\ Len(players') = 2
    /\ dealer_position' = 0

\* a step that opens the flop, the turn or the river of such a hand
HeadsUpStreet ==
    /\ hand_number' = hand_number
    /\ Len(players') = 2
    /\ dealer_position' = 0
    /\ phase' \in {FLOP, TURN, RIVER}
    /\ phase' # phase

\* seat 0 has posted the small blind and seat 1 the big blind, each with
\* its whole stack when the stack is no more than the blind
HeadsUpBlinds ==
    /\ players'[1].total_bet = Min(small_blind, players[1].chips)
    /\ players'[2].total_bet = Min(big_blind, players[2].chips)

C11_RaiseSetsBetAndIncrement ==
    (phase \in BettingPhases /\ stray = 0) =>
        \A s \in Seats \cap {current_player_index}, T \in Amounts(RAISE) :
            \A r \in {player_action(G, s, RAISE, T)} :
                (/\ r.out = "ok"
                 /\ r.g.phase = phase
                 /\ T - players[s + 1].current_bet <= players[s + 1].chips)
                    => /\ r.g.current_bet = T
                       /\ r.g.min_raise = T - current_bet

\* C12: for a seat that can act, Call is a valid action exactly when the
\* table bet exceeds the seat's bet of the round and the seat has chips; a
\* seat to act whose stack is smaller than the gap can call, and the call
\* puts its whole stack in and leaves it all-in.
C12_CallValidIffGapAndChips ==
    (phase \in BettingPhases /\ stray = 0) =>
        \A s \in CanAct(G) :
            LET p == players[s + 1]
            IN /\ CALL \in get_valid_actions(G, p)
                      <=> (current_bet > p.current_bet /\ p.chips > 0)
               /\ (s = current_player_index /\ p.chips > 0
                       /\ current_bet - p.current_bet > p.chips)
                      => \A r \in {player_action(G, s, CALL, 0)} :
                             /\ r.out # "fail"
                             /\ r.g.players[s + 1].status = ALL_IN
                             /\ r.g.players[s + 1].total_bet
                                    = p.total_bet + p.chips

\* C13: for a seat that can act, Fold is always a valid action, Check is one
\* exactly when the seat's bet of the round equals the table bet, All-In is
\* one exactly when the seat holds chips, and Check and Call are never both
\* valid; a seat that cannot act has no valid action.
C13_FoldCheckAllInRules ==
    \A s \in Seats :
        \A valid \in {get_valid_actions(G, players[s + 1])} :
            IF can_act(players[s + 1])
            THEN /\ FOLD \in valid
                 /\ CHECK \in valid <=> players[s + 1].current_bet = current_bet
                 /\ ALLIN \in valid <=> players[s + 1].chips > 0
                 /\ ~(CHECK \in valid /\ CALL \in valid)
            ELSE valid = {}

\* a betting round in which one seat faces a bet it has not matched (it may
\* call but not check), one seat has matched the table bet (it may check)
\* and one seat has folded (it has no valid action)
C13_Witness ==
    /\ phase \in BettingPhases
    /\ stray = 0
    /\ \E s \in CanAct(G) :
           /\ players[s + 1].current_bet < current_bet
           /\ get_valid_actions(G, players[s + 1]) \cap {CHECK, CALL} = {CALL}
    /\ \E s \in CanAct(G) :
           get_valid_actions(G, players[s + 1]) \cap {CHECK, CALL} = {CHECK}
    /\ \E s \in Seats :
           /\ players[s + 1].status = FOLDED
           /\ get_valid_actions(G, players[s + 1]) = {}

\* C14: for a seat that can act, Raise is a valid action exactly when the
\* seat's stack is at least the table bet plus the minimum-raise increment
\* minus the seat's bet of the round.
C14_RaiseValidIffStackCoversMinimum ==
    \A s \in CanAct(G) :
        RAISE \in get_valid_actions(G, players[s + 1])
            <=> players[s + 1].chips
                    >= current_bet + min_raise - players[s + 1].current_bet

\* a betting round in which one seat may raise only because its bet of the
\* round counts towards the minimum, and another seat that can act may not
\* raise
C14_Witness ==
    /\ phase \in BettingPhases
    /\ stray = 0
    /\ \E s \in CanAct(G) :
           /\ players[s + 1].current_bet > 0
           /\ players[s + 1].chips < current_bet + min_raise
           /\ RAISE \in get_valid_actions(G, players[s + 1])
    /\ \E s \in CanAct(G) :
           /\ players[s + 1].chips > 0
           /\ RAISE \notin get_valid_actions(G, players[s + 1])

\* C15: start_new_hand called when fewer than two seats have chips reports
\* an error to the caller and changes nothing: hand counter, phase, pot,
\* table bet, button, deck and every player are as before the call.
C15_StartRefusedChangesNothing ==
    Cardinality(Funded(G)) < 2
        => \A shuffled \in Shuffles :
               start_new_hand(G, shuffled) = [g |-> G, ok |-> FALSE]

\* a hand of two seats has ended with one of them holding every chip: the
\* next start_new_hand is refused
C15_Witness ==
    /\ phase = HAND_COMPLETE
    /\ stray = 0
    /\ Len(players) = 2
    /\ Cardinality(Funded(G)) = 1
    /\ ~start_new_hand(G, DeckReset).ok

\* C16: add_player fails and leaves the seat list as it was when MaxSeats
\* seats are taken or the name is already seated, and otherwise appends the
\* player at the position equal to the previous number of seats; so after
\* any sequence of add_player and remove_player calls the table has at most
\* MaxSeats seats, the names are pairwise distinct and every seat's
\* position is its index.
C16_SeatListStaysWellFormed ==
    /\ Len(players) <= MaxSeats
    /\ \A i \in 1..Len(players), j \in 1..Len(players) :
           players[i].name = players[j].name => i = j
    /\ \A i \in 1..Len(players) : players[i].position = i - 1
    /\ \A name \in 1..MaxSeatNames, chips \in StackChoices :
           \A r \in {add_player(G, name, chips)} :
               IF \/ Len(players) >= MaxSeats
                  \/ \E i \in 1..Len(players) : players[i].name = name
               THEN r = [g |-> G, ok |-> FALSE]
               ELSE /\ r.ok
                    /\ Len(r.g.players) = Len(players) + 1
                    /\ SubSeq(r.g.players, 1, Len(players)) = players
                    /\ r.g.players[Len(players) + 1].name = name
                    /\ r.g.players[Len(players) + 1].position = Len(players)

\* a full table, seated in an order no run of joins in name order gives,
\* that refuses a seventh name and a name already seated
C16_Witness ==
    /\ Len(players) = MaxSeats
    /\ \E i \in 1..Len(players), j \in 1..Len(players) :
           i < j /\ players[i].name > players[j].name
    /\ \E name \in 1..MaxSeatNames :
           /\ \A i \in 1..Len(players) : players[i].name # name
           /\ ~add_player(G, name, MaxStack).ok
    /\ ~add_player(G, players[1].name, MaxStack).ok

\* C17: a hand that completes with fewer than two seats holding chips
\* leaves the phase at Waiting, not at HandComplete.
C17_BustedTableReturnsToWaiting ==
    [][(/\ stray' = 0
        /\ phase \in BettingPhases
        /\ phase' \notin BettingPhases
        /\ Cardinality(Funded(G')) < 2)
       => phase' = WAITING]_vars

\* C18: during PreFlop, Flop, Turn and River every seat has
\* current-round contribution <= total-hand contribution <= its stack at the
\* start of the hand, and stack + total-hand contribution equal to its stack
\* at the start of the hand.  The stack at the start of the hand is the
\* stack start_new_hand found; it is carried from step to step: the step
\* that starts a hand leaves stack + contribution equal to the stack before
\* it, and every later step between betting phases of the hand keeps the
\* sum, with the stack never negative.
C18_ContributionsWithinStartingStack ==
    /\ [](phase \in BettingPhases
              => \A i \in Seats :
                     /\ 0 <= players[i + 1].current_bet
                     /\ players[i + 1].current_bet <= players[i + 1].total_bet
                     /\ players[i + 1].chips >= 0)
    /\ [][/\ hand_number' = hand_number + 1
              => \A i \in Seats :
                     players'[i + 1].chips + players'[i + 1].total_bet
                         = players[i + 1].chips
          /\ (/\ hand_number' = hand_number
              /\ phase \in BettingPhases
              /\ phase' \in BettingPhases)
              => \A i \in Seats :
                     players'[i + 1].chips + players'[i + 1].total_bet
                         = players[i + 1].chips + players[i + 1].total_bet]_vars

\* a seat has put chips in on two streets of the hand: its contribution of
\* the hand exceeds its contribution of the round, which is not zero
C18_Witness ==
    /\ phase \in {FLOP, TURN, RIVER}
    /\ stray = 0
    /\ \E i \in Seats :
           /\ players[i + 1].current_bet > 0
           /\ players[i + 1].total_bet > players[i + 1].current_bet

\* the chips a step pays out, all seats taken together
TotalPaid == SumSeq([k \in 1..Len(players) |-> Paid(k - 1)])

\* C19: the showdown of two or more in-hand seats pays exactly the in-hand
\* seats whose best seven-card hand is the greatest among the in-hand
\* seats, and the amounts paid add up to the pot total; _showdown with
\* exactly one in-hand seat gives that seat the whole pot.
C19_ShowdownPaysTheBestHands ==
    /\ [][(ActionStep /\ phase = RIVER /\ phase' = HAND_COMPLETE
              /\ Cardinality(InHand(G')) >= 2)
          => /\ {i \in Seats : Paid(i) > 0} = BestSeats(G')
             /\ \A i \in Seats : Paid(i) >= 0
             /\ TotalPaid = get_total_pot(G'.pot)]_vars
    /\ [](Cardinality(InHand(G)) = 1
              => \A r \in {_showdown(G)} :
                     /\ ~r.raised
                     /\ r.g.phase = HAND_COMPLETE
                     /\ \A i \in Seats :
                            r.g.players[i + 1].chips =
                                players[i + 1].chips
                                    + (IF i \in InHand(G)
                                       THEN get_total_pot(G.pot) ELSE 0))

\* a showdown of the first hand between two or more dealt-in seats that one
\* of them lost: the hands differ and every chip of the pot went to the best hands
C19_Witness ==
    /\ phase = HAND_COMPLETE
    /\ stray = 0
    /\ hand_number = 1
    /\ Len(community_cards) = 5
    /\ Cardinality(InHand(G)) >= 2
    /\ \A i \in InHand(G) : Len(players[i + 1].hole_cards) = 2
    /\ BestSeats(G) # InHand(G)
    /\ \A i \in InHand(G) \ BestSeats(G) :
           players[i + 1].chips + players[i + 1].total_bet < MaxStack
    /\ \E w \in BestSeats(G) : players[w + 1].chips > MaxStack

\* C20: an accepted action that neither ends the hand nor completes the
\* betting round comes from the current actor, changes no other seat, and
\* leaves the turn at the first seat clockwise of the acting seat that can
\* act; folded, all-in and sitting-out seats are passed over.
C20_TurnPassesClockwiseToSeatThatCanAct ==
    [][(ActionStep /\ stray' = 0 /\ phase' = phase)
       => \A s \in {get_current_player(G).seat} :
              /\ s \in Seats
              /\ \A i \in Seats \ {s} : players'[i + 1] = players[i + 1]
              /\ current_player_index'
                     = FirstClockwise(s, 1, Len(players), Len(players),
                                      CanAct(G'))
              /\ current_player_index' \in CanAct(G')]_vars

\* seat 1 of three has called before the flop and the turn has passed over
\* seat 2, all-in on its blind, to seat 0
C20_Witness ==
    /\ phase = PRE_FLOP
    /\ stray = 0
    /\ Len(players) = 3
    /\ players[3].status = ALL_IN
    /\ players[2].last_action = CALL
    /\ players[1].last_action = NoAction
    /\ can_act(players[1])
    /\ current_player_index = 0

\* C21: taking a snapshot (get_game_state) and querying the turn
\* (get_current_player, get_valid_actions, which returns only its list) are
\* read-only: in every reachable state they leave the game as it was, the
\* current-actor index included.
C21_QueriesAreReadOnly ==
    stray = 0 =>
        /\ get_current_player(G).g = G
        /\ get_game_state(G).g = G

\* C22: get_current_player returns a seat that can act whenever at least
\* one seat can act, and returns none when no seat can act.
C22_CurrentPlayerCanActOrIsNone ==
    stray = 0 =>
        \A r \in {get_current_player(G)} :
            IF CanAct(G) # {} THEN r.seat \in CanAct(G) ELSE r.seat = -1

\* a step that starts a hand at a table of three or more seats
MultiWayStart ==
    /\ hand_number' = hand_number + 1
    /\ stray' = 0
    /\ Len(players') >= 3

\* the game in which the hand's blinds are posted: the button has moved and
\* no stack has changed yet
AtBlinds == [G EXCEPT !.dealer_position = dealer_position']

\* C23: in a hand of three or more seats the first actor before the flop is
\* the first seat able to act clockwise of the seat that posted the big
\* blind, also when a blind seat went all-in by posting its blind.
C23_FirstPreflopActorFollowsBigBlind ==
    [][(MultiWayStart /\ CanAct(G') # {})
       => current_player_index'
              = FirstClockwise(_get_big_blind_position(AtBlinds), 1,
                               Len(players), Len(players), CanAct(G'))]_vars

\* a step that opens the flop, the turn or the river of a hand at a table
\* of three or more seats
MultiWayStreet ==
    /\ hand_number' = hand_number
    /\ stray' = 0
    /\ Len(players') >= 3
    /\ phase' \in {FLOP, TURN, RIVER}
    /\ phase' # phase

\* the game g of a hand under way with every stack as the hand found it:
\* what a seat has put in is back in its stack
AtHandStart(g) ==
    [g EXCEPT !.players =
        [i \in 1..Len(g.players) |->
            [g.players[i] EXCEPT !.chips = @ + g.players[i].total_bet]]]

\* C24: when the flop, the turn or the river is dealt in a hand of three or
\* more seats, the turn goes to the first seat able to act found clockwise
\* from the seat that posted the small blind of the hand, that seat
\* included, whatever the stacks have become since.
C24_FirstStreetActorFollowsSmallBlind ==
    [][(MultiWayStreet /\ CanAct(G') # {})
       => current_player_index'
              = FirstClockwise(_get_small_blind_position(AtHandStart(G')), 0,
                               Len(players) - 1, Len(players), CanAct(G'))]_vars

\* C25: every successful start_new_hand moves the button to the first seat
\* with chips found clockwise, with wrap-around, from the seat after the
\* previous button: the button is on a seat that has chips and every seat
\* passed over has none.
C25_ButtonMovesToNextFundedSeat ==
    [][hand_number' = hand_number + 1
       => \E i \in 1..Len(players) :
              /\ dealer_position' = (dealer_position + i) % Len(players)
              /\ HasChips(players[dealer_position' + 1])
              /\ players'[dealer_position' + 1].chips
                     + players'[dealer_position' + 1].total_bet > 0
              /\ \A j \in 1..(i - 1) :
                     ~HasChips(players[((dealer_position + j) % Len(players)) + 1])]_vars

\* the second hand of a table of three has started; seat 2, next after the
\* previous button at seat 1, has no chips and the button has passed it
C25_Witness ==
    /\ hand_number = 2
    /\ stray = 0
    /\ phase = PRE_FLOP
    /\ Len(players) = 3
    /\ players[3].chips = 0
    /\ players[3].status = SITTING_OUT
    /\ dealer_position = 0

\* the cards of a sequence, as a set
CardsIn(cards) == {cards[k] : k \in 1..Len(cards)}

\* the cards in sight: in the seats' hands, on the board and in the deck
CardsInSight ==
    UNION {CardsIn(players[i + 1].hole_cards) : i \in Seats}
        \cup CardsIn(community_cards) \cup CardsIn(deck)

CardsCounted ==
    SumSeq([k \in 1..Len(players) |-> Len(players[k].hole_cards)])
        + Len(community_cards) + Len(deck)

\* one card is burned before each of the flop, the turn and the river
Burned == IF Len(community_cards) = 0 THEN 0 ELSE Len(community_cards) - 2

\* C26: within a hand the hole cards, the burned cards, the community cards
\* and the cards left in the deck are 52 pairwise distinct cards; every seat
\* with chips at the start of the hand is dealt exactly two hole cards,
\* round-robin, and the seats without chips none; and the deck never runs
\* out: at most 20 cards leave it in a hand.
C26_CardsAreDealtOnceAndRoundRobin ==
    /\ [](hand_number >= 1
              => /\ CardsInSight \subseteq 1..52
                 /\ Cardinality(CardsInSight) = CardsCounted
                 /\ CardsCounted + Burned = 52
                 /\ Len(community_cards) \in {0, 3, 4, 5}
                 /\ Len(deck) >= 52 - 20
                 /\ \A i \in Seats : Len(players[i + 1].hole_cards) \in {0, 2})
    /\ [][hand_number' = hand_number + 1
          => \E shuffled \in Shuffles :
                 LET m == Cardinality(Funded(G))
                 IN /\ deck' = SubSeq(shuffled, 1, 52 - 2 * m)
                    /\ \A i \in Seats :
                           players'[i + 1].hole_cards =
                               IF i \in Funded(G)
                               THEN <<shuffled[52 - IndexIn(Funded(G), i)],
                                      shuffled[52 - m - IndexIn(Funded(G), i)]>>
                               ELSE <<>>]_vars

\* the board of a hand of three seats is complete: six hole cards, five
\* community cards and three burned cards have left the deck
C26_Witness ==
    /\ hand_number >= 1
    /\ stray = 0
    /\ Len(players) = 3
    /\ \A i \in Seats : Len(players[i + 1].hole_cards) = 2
    /\ Len(community_cards) = 5
    /\ Len(deck) = 52 - 6 - 5 - 3

\* the layer of threshold t over the contributors ps: the chips between the
\* next lower contribution level and t of every contributor that put in at
\* least t, folded or not, and as eligible players those of them still in
\* the hand, in the order of ps
LayerAt(g, ps, t) ==
    LET pc == g.pot.player_contributions
        lower == {pc[n] : n \in DOMAIN pc} \cap 0..(t - 1)
        previous == IF lower = {} THEN 0
                    ELSE CHOOSE u \in lower : \A v \in lower : v <= u
        AtLeast(q) == pc[q.name] >= t
        AtLeastInHand(q) == pc[q.name] >= t /\ is_in_hand(q)
        eligible == SelectSeq(ps, AtLeastInHand)
    IN SidePot((t - previous) * Len(SelectSeq(ps, AtLeast)),
               [k \in 1..Len(eligible) |-> eligible[k].name])

\* the layers expected of create_side_pots: one for each contribution level
\* that some player still in the hand has reached, in ascending order
LayersExpected(g, ps) ==
    LET pc == g.pot.player_contributions
        levels == {t \in {pc[n] : n \in DOMAIN pc} :
                      /\ t > 0
                      /\ \E k \in 1..Len(ps) :
                             is_in_hand(ps[k]) /\ pc[ps[k].name] >= t}
        ascending == SetToSortedSeq(levels)
    IN [j \in 1..Len(ascending) |-> LayerAt(g, ps, ascending[j])]

\* C27: in every side pot create_side_pots builds from the contributing
\* players, the eligible players are exactly those whose contribution is
\* at least the layer's threshold and who are still in the hand; a folded
\* player's chips are counted in the layer amounts and a folded player is
\* in no eligible set.
C27_EligibleAreInHandAtThreshold ==
    \A pot \in {create_side_pots(G.pot, Contributors(G))} :
        /\ pot.side_pots = LayersExpected(G, Contributors(G))
        /\ \A n \in 1..Len(pot.side_pots), i \in Seats :
               players[i + 1].status = FOLDED
                   => \A k \in 1..Len(pot.side_pots[n].eligible_players) :
                          pot.side_pots[n].eligible_players[k]
                              # players[i + 1].name

\* a folded seat has chips in the pot and the seats still in the hand have
\* put in different amounts: there are two or more layers, the folded
\* seat's chips are in the first and the seat is eligible for none
C27_Witness ==
    /\ stray = 0
    /\ phase \in BettingPhases
    /\ Len(create_side_pots(G.pot, Contributors(G)).side_pots) >= 2
    /\ \E i \in Seats :
           /\ players[i + 1].status = FOLDED
           /\ players[i + 1].total_bet > 0
    /\ \E i \in InHand(G), j \in InHand(G) :
           players[i + 1].total_bet < players[j + 1].total_bet

(***************************************************************************)
(* The hand evaluator, stated on the cards themselves: how often a rank    *)
(* occurs, whether one suit is held, whether the ranks form a run.         *)
(***************************************************************************)
RankSet(cards) == {RankOf(cards[i]) : i \in 1..Len(cards)}
Times(cards, r) == Cardinality({i \in 1..Len(cards) : RankOf(cards[i]) = r})
OneSuit(cards) == \A i, j \in 1..Len(cards) : SuitOf(cards[i]) = SuitOf(cards[j])
RunTo(cards, high) == RankSet(cards) = (high - 4)..high
WheelRanks(cards) == RankSet(cards) = {14, 2, 3, 4, 5}
Run(cards) == WheelRanks(cards) \/ \E high \in 6..14 : RunTo(cards, high)

\* the category applies to the five cards
Applies(category, cards) ==
    CASE category = ROYAL_FLUSH -> OneSuit(cards) /\ RunTo(cards, 14)
      [] category = STRAIGHT_FLUSH -> OneSuit(cards) /\ Run(cards)
      [] category = FOUR_OF_A_KIND -> \E r \in 2..14 : Times(cards, r) = 4
      [] category = FULL_HOUSE ->
             \E r, q \in 2..14 : Times(cards, r) = 3 /\ Times(cards, q) = 2
      [] category = FLUSH -> OneSuit(cards)
      [] category = STRAIGHT -> Run(cards)
      [] category = THREE_OF_A_KIND -> \E r \in 2..14 : Times(cards, r) >= 3
      [] category = TWO_PAIR ->
             \E r, q \in 2..14 :
                 r # q /\ Times(cards, r) >= 2 /\ Times(cards, q) >= 2
      [] category = ONE_PAIR -> \E r \in 2..14 : Times(cards, r) >= 2
      [] category = HIGH_CARD -> TRUE

Categories == HIGH_CARD..ROYAL_FLUSH

\* _evaluate_five_cards has been applied to the five cards drawn
Evaluated5 == Len(eval_cards) = 5 /\ eval_result # <<>>

\* C28: the five-card evaluation names one of the ten categories, the
\* highest one that applies to the cards in the order Royal Flush,
\* Straight Flush, Four of a Kind, Full House, Flush, Straight, Three of a
\* Kind, Two Pair, One Pair, High Card; five cards that are both a flush
\* and a straight are never called plain Flush or plain Straight.
C28_HighestApplicableCategory ==
    Evaluated5 =>
        /\ eval_result.hand_rank \in Categories
        /\ Applies(eval_result.hand_rank, eval_cards)
        /\ \A category \in Categories :
               Applies(category, eval_cards)
                   => category <= eval_result.hand_rank
        /\ OneSuit(eval_cards) /\ Run(eval_cards)
               => eval_result.hand_rank \notin {FLUSH, STRAIGHT}

\* a suited run below the ace-high one has been evaluated
C28_Witness ==
    /\ Evaluated5
    /\ OneSuit(eval_cards) /\ Run(eval_cards) /\ ~RunTo(eval_cards, 14)
    /\ eval_result.hand_rank = STRAIGHT_FLUSH

Wheel(cards) == WheelRanks(cards) /\ ~OneSuit(cards)

\* the results of the six-high and higher straights, and of the hands
\* holding exactly one pair, among the hands drawn
HigherStraights ==
    {_evaluate_five_cards(h) :
        h \in {f \in FiveCardHands :
                  ~OneSuit(f) /\ \E high \in 6..14 : RunTo(f, high)}}

OnePairs ==
    {_evaluate_five_cards(h) :
        h \in {f \in FiveCardHands : Cardinality(RankSet(f)) = 4}}

\* C29: a wheel that is not of one suit is a Straight whose tie-break
\* value is 5, not 14; in the Hand Result order it is below every six-high
\* or higher straight and above every One Pair hand.
C29_WheelIsFiveHighStraight ==
    Evaluated5 /\ Wheel(eval_cards) =>
        /\ eval_result = HandResult(STRAIGHT, <<5>>)
        /\ \A higher \in HigherStraights : HandLt(eval_result, higher)
        /\ \A pair \in OnePairs : HandLt(pair, eval_result)

\* a wheel has been evaluated, with six-high and ace-high straights and
\* pairs of aces among the hands it is compared with
C29_Witness ==
    /\ Evaluated5 /\ Wheel(eval_cards)
    /\ eval_result.rank_values = <<5>>
    /\ HandResult(STRAIGHT, <<6>>) \in HigherStraights
    /\ HandResult(STRAIGHT, <<14>>) \in HigherStraights
    /\ \E pair \in OnePairs : pair.hand_rank = ONE_PAIR /\ pair.rank_values[1] = 14

\* the Hand Result order: category first, then the tie-break values
\* lexicographically, most significant first
RECURSIVE LexLess(_, _)
LexLess(a, b) ==
    IF a = <<>> THEN b # <<>>
    ELSE IF b = <<>> THEN FALSE
    ELSE IF Head(a) # Head(b) THEN Head(a) < Head(b)
    ELSE LexLess(Tail(a), Tail(b))

Below(a, b) ==
    LexLess(<<a.hand_rank>> \o a.rank_values, <<b.hand_rank>> \o b.rank_values)

\* evaluate_hand has been applied to the seven cards drawn
Evaluated7 == Len(eval_cards) = 7 /\ eval_result # <<>>

\* C30: for seven distinct cards evaluate_hand returns the evaluation of
\* one of their 21 five-card subsets, and no five-card subset evaluates
\* strictly higher in the Hand Result order (category first, then the
\* tie-break values lexicographically).
C30_BestOfTwentyOneSubsets ==
    Evaluated7 =>
        \A fives \in {Hands(eval_cards, 5)} :
            /\ Cardinality(fives) = 21
            /\ \E five \in fives : HandEq(_evaluate_five_cards(five), eval_result)
            /\ \A five \in fives : ~Below(eval_result, _evaluate_five_cards(five))

\* seven cards have been evaluated whose best five leave out a hole card:
\* the five cards that keep both hole cards never reach the result
C30_Witness ==
    /\ Evaluated7
    /\ \A five \in Hands(eval_cards, 5) :
           five[1] = eval_cards[1] /\ five[2] = eval_cards[2]
               => Below(_evaluate_five_cards(five), eval_result)

\* the seats other than s that can act after the call and had acted at
\* the table bet before it
ActedAtBet(g, s) ==
    {i \in CanAct(g) \ {s} :
        /\ players[i + 1].last_action # NoAction
        /\ players[i + 1].current_bet = current_bet}

\* C31: an accepted All-In that raises the table bet by less than the
\* minimum-raise increment and leaves the betting round open does not
\* reopen the betting: a seat that had acted at the table bet before it may
\* fold, may call the difference its stack covers, and may not raise.
C31_ShortAllInDoesNotReopenBetting ==
    (phase \in BettingPhases /\ stray = 0) =>
        \A s \in Seats \cap {current_player_index} :
            \A r \in {player_action(G, s, ALLIN, 0)} :
                (/\ r.out = "ok"
                 /\ r.g.phase = phase
                 /\ r.g.current_bet > current_bet
                 /\ r.g.current_bet - current_bet < min_raise)
                    => \A i \in ActedAtBet(r.g, s) :
                           \A valid \in {get_valid_actions(r.g, r.g.players[i + 1])} :
                               /\ FOLD \in valid
                               /\ r.g.players[i + 1].chips
                                      >= r.g.current_bet - current_bet
                                          => CALL \in valid
                               /\ RAISE \notin valid

\* a step that completes a betting round and opens the next street of the
\* same hand
StreetOpens ==
    /\ phase \in BettingPhases
    /\ phase' \in {FLOP, TURN, RIVER}
    /\ phase' # phase
    /\ hand_number' = hand_number

\* C32 as claimed: when a betting round completes, the table bet and the
\* minimum-raise increment are both the big blind when the next street
\* opens.
C32_BetAndIncrementResetToBigBlind ==
    [][StreetOpens => current_bet' = big_blind /\ min_raise' = big_blind]_vars

\* C32: when a betting round completes, the table bet is 0 and the
\* minimum-raise increment is the big blind when the next street opens.
C32_BetResetToZeroIncrementToBigBlind ==
    [][StreetOpens => current_bet' = 0 /\ min_raise' = big_blind]_vars

\* the turn has opened in a hand played in protocol: no seat has acted on
\* it, the table bet is 0 and the increment is the big blind
C32_Witness ==
    /\ phase = TURN
    /\ stray = 0
    /\ Len(community_cards) = 4
    /\ \A i \in CanAct(G) : players[i + 1].last_action = NoAction
    /\ Cardinality(CanAct(G)) >= 2
    /\ current_bet = 0
    /\ min_raise = big_blind

\* the operation moved min(requested, stack) chips of p from the stack
\* into both contributions, returned that amount, and left the seat AllIn
\* exactly when the stack is 0 (Active otherwise)
MovesChips(p, m, requested) ==
    LET moved == Min(requested, p.chips)
    IN /\ m.amount = moved
       /\ m.player.chips = p.chips - moved
       /\ m.player.current_bet = p.current_bet + moved
       /\ m.player.total_bet = p.total_bet + moved
       /\ m.player.status = IF m.player.chips = 0 THEN ALL_IN ELSE ACTIVE

\* what the pot holds for a name
Contribution(pot, name) ==
    IF name \in DOMAIN pot.player_contributions
    THEN pot.player_contributions[name] ELSE 0

\* player_action credited the pot of g with the amount for the name
Credited(g, name, amount) ==
    /\ g.pot.main_pot = main_pot + amount
    /\ Contribution(g.pot, name) = Contribution(G.pot, name) + amount
    /\ \A other \in DOMAIN g.pot.player_contributions \ {name} :
           Contribution(g.pot, other) = Contribution(G.pot, other)

\* the requests Call, Raise to T and All-In that player_action accepts from
\* the seat to act, with the chips each asks for
Requests(s) ==
    {<<CALL, 0, current_bet - players[s + 1].current_bet>>,
     <<ALLIN, 0, players[s + 1].chips>>}
    \cup {<<RAISE, T, T - players[s + 1].current_bet>> : T \in Amounts(RAISE)}

\* the Player operation behind a request
Operation(p, action, T) ==
    IF action = CALL THEN call(p, current_bet)
    ELSE IF action = RAISE THEN raise_bet(p, T)
    ELSE all_in(p)

\* C33: call, raise_bet and all_in applied to an Active seat for a request
\* of zero or more chips, and post_blind applied to a funded seat made
\* ready for the hand, each move min(requested amount, stack) chips from
\* the stack into the contribution of the round and of the hand, return
\* the amount moved and leave the seat AllIn exactly when its stack is 0;
\* when player_action accepts the request of the seat to act, it adds the
\* returned amount to the pot.
C33_ChipMovesReturnWhatTheyMove ==
    /\ phase \in BettingPhases =>
           \A s \in CanAct(G) : \A req \in Requests(s) :
               \A m \in {Operation(players[s + 1], req[1], req[2])} :
                   /\ req[3] >= 0 => MovesChips(players[s + 1], m, req[3])
                   /\ \A r \in {player_action(G, s, req[1], req[2])} :
                          r.out = "ok" =>
                              Credited(r.g, players[s + 1].name, m.amount)
    /\ \A i \in Funded(G), amount \in {small_blind, big_blind} :
           MovesChips(new_hand(players[i + 1]),
                      post_blind(new_hand(players[i + 1]), amount), amount)

\* an Active seat to act holds less than a call asks for and less than
\* the big blind: call would move its stack, and its All-In is accepted
\* and moves its stack into the pot
C33_Witness ==
    /\ phase \in BettingPhases
    /\ stray = 0
    /\ \E s \in CanAct(G) \cap {current_player_index} :
           /\ 0 < players[s + 1].chips
           /\ players[s + 1].chips < big_blind
           /\ players[s + 1].chips < current_bet - players[s + 1].current_bet
           /\ call(players[s + 1], current_bet).amount = players[s + 1].chips
           /\ \A r \in {player_action(G, s, ALLIN, 0)} :
                  /\ r.out = "ok"
                  /\ r.g.pot.main_pot = main_pot + players[s + 1].chips

\* the number of community cards the phase allows
BoardSizes ==
    CASE phase \in {WAITING, PRE_FLOP} -> {0}
      [] phase = FLOP -> {3}
      [] phase = TURN -> {4}
      [] phase = RIVER -> {5}
      [] phase = HAND_COMPLETE -> {0, 3, 4, 5}
      [] OTHER -> {}

\* a step that deals community cards: the top card of the deck is burned
\* and the next ones are appended to the board in the order dealt
StreetDealBurnsOne ==
    LET count == Len(community_cards') - Len(community_cards)
        top == Len(deck)
    IN /\ deck' = SubSeq(deck, 1, top - count - 1)
       /\ community_cards' =
              community_cards \o [k \in 1..count |-> deck[top - k]]
       /\ \A k \in 1..Len(community_cards') : community_cards'[k] # deck[top]

\* C34: in every reachable state the board holds 0 cards in Waiting and
\* PreFlop, 3 in Flop, 4 in Turn, 5 in River and 0, 3, 4 or 5 in
\* HandComplete; every step that deals community cards first takes exactly
\* one burn card off the deck.
C34_BoardSizeFollowsPhaseAndStreetsBurn ==
    /\ [](Len(community_cards) \in BoardSizes)
    /\ [][Len(community_cards') > Len(community_cards)
              => StreetDealBurnsOne]_vars

\* the river of a heads-up hand played in protocol: five community cards,
\* and four hole cards, five community cards and three burns off the deck
C34_Witness ==
    /\ phase = RIVER
    /\ stray = 0
    /\ Len(players) = 2
    /\ Len(community_cards) = 5
    /\ Len(deck) = 52 - 4 - 5 - 3

\* all the chips in the stacks of g
StackTotal(g) == SumSeq([k \in 1..Len(g.players) |-> g.players[k].chips])

\* C35: while the phase is Waiting or HandComplete every player_action
\* request is rejected and changes nothing; in particular no request made
\* after a hand has reached HandComplete pays chips out of its pot again.
C35_NoActionOutsideAHand ==
    (phase \in {WAITING, HAND_COMPLETE} /\ stray = 0) =>
        \A s \in Seats, action \in PlayerActions :
            \A amount \in Amounts(action) :
                \A r \in {player_action(G, s, action, amount)} :
                    /\ r.out = "fail"
                    /\ r.g = G
                    /\ StackTotal(r.g) = StackTotal(G)

\* the chips of the table: the stacks, and during a hand the pot as well
Held(g) ==
    StackTotal(g)
        + (IF g.phase \in BettingPhases THEN get_total_pot(g.pot) ELSE 0)

\* the chips a step brings to the table with a new seat
Joined ==
    IF Len(players') > Len(players) THEN players'[Len(players')].chips ELSE 0

\* C36: whatever add_player, start_new_hand and player_action calls are
\* made, no step creates or destroys chips: the stacks plus the pot of the
\* hand under way change only by the stack of a seat that joins, the
\* payout at HandComplete puts the whole pot into the stacks, and starting
\* a hand only moves the blinds from the stacks into the pot.
C36_ChipsAreConserved ==
    [][Held(G') = Held(G) + Joined]_vars

\* the funded seat of g that is not the button b
NonButton(g, b) == CHOOSE i \in Funded(g) : i # b

\* a step that starts a hand at a table of three or more seats of which
\* exactly two have chips
TwoFundedStart ==
    /\ hand_number' = hand_number + 1
    /\ stray' = 0
    /\ Len(players') >= 3
    /\ Cardinality(Funded(G)) = 2

\* a step that opens the flop, the turn or the river of such a hand
TwoFundedStreet ==
    /\ hand_number' = hand_number
    /\ stray' = 0
    /\ Len(players') >= 3
    /\ phase' \in {FLOP, TURN, RIVER}
    /\ phase' # phase
    /\ Cardinality(Funded(AtHandStart(G'))) = 2
    /\ dealer_position \in Funded(AtHandStart(G'))

\* C37: in a hand of a table of three or more seats of which exactly two
\* have chips at the start, the button posts the small blind and is first
\* to act before the flop when it can act, and the other funded seat posts
\* the big blind and is first to act on the flop, the turn and the river
\* when it can act.
C37_TwoFundedSeatsPlayHeadsUp ==
    [][/\ TwoFundedStart
          => \A b \in {dealer_position'} : \A o \in {NonButton(G, b)} :
                 /\ b \in Funded(G)
                 /\ players'[b + 1].total_bet
                        = Min(small_blind, players[b + 1].chips)
                 /\ players'[o + 1].total_bet
                        = Min(big_blind, players[o + 1].chips)
                 /\ can_act(players'[b + 1]) => current_player_index' = b
       /\ TwoFundedStreet
          => \A o \in {NonButton(AtHandStart(G'), dealer_position)} :
                 can_act(players'[o + 1]) => current_player_index' = o]_vars

\* C38: in every state of a hand, what the pot records for each player is
\* that player's contribution to the hand (total_bet), and the pot total is
\* the sum of the contributions of all players.
C38_PotMirrorsTotalBets ==
    phase \in BettingPhases \cup {HAND_COMPLETE} =>
        /\ \A i \in Seats :
               Contribution(G.pot, players[i + 1].name) = players[i + 1].total_bet
        /\ get_total_pot(G.pot)
               = SumSeq([k \in 1..Len(players) |-> players[k].total_bet])

\* the turn of a hand of three seats played in protocol in which the three
\* contributions differ and one seat put nothing in
C38_Witness ==
    /\ phase = TURN
    /\ stray = 0
    /\ Len(players) = 3
    /\ Cardinality({players[k].total_bet : k \in 1..3}) = 3
    /\ \E k \in 1..3 : players[k].total_bet = 0
    /\ main_pot >= 4

\* C39: in PreFlop, Flop, Turn and River every seat in the hand (Active or
\* AllIn) holds exactly 2 hole cards, also after add_player was called
\* while the hand was under way, and no accepted action ends in a showdown
\* that evaluates other than 7 cards for a seat in the hand.
C39_InHandSeatsHoldTwoCards ==
    phase \in BettingPhases =>
        /\ \A i \in InHand(G) : Len(players[i + 1].hole_cards) = 2
        /\ \A s \in Seats, action \in PlayerActions :
               \A amount \in Amounts(action) :
                   player_action(G, s, action, amount).out # "raised"

\* C40: during PreFlop, Flop, Turn and River every Active seat has a
\* positive stack, every AllIn seat has stack 0, and the table bet is at
\* least the bet of the round of every seat.
C40_StatusMatchesStackAndBetBoundsSeats ==
    phase \in BettingPhases =>
        \A i \in Seats :
            /\ players[i + 1].status = ACTIVE => players[i + 1].chips > 0
            /\ players[i + 1].status = ALL_IN => players[i + 1].chips = 0
            /\ players[i + 1].current_bet <= current_bet

\* a betting round played in protocol with an Active seat that has acted
\* and still holds chips, an AllIn seat, and a seat whose bet of the round
\* is below the table bet
C40_Witness ==
    /\ phase \in BettingPhases
    /\ stray = 0
    /\ \E i \in Seats :
           /\ players[i + 1].status = ACTIVE
           /\ players[i + 1].last_action # NoAction
           /\ players[i + 1].chips > 0
    /\ \E i \in Seats :
           players[i + 1].status = ALL_IN /\ players[i + 1].chips = 0
    /\ \E i \in Seats : players[i + 1].current_bet < current_bet

====
